---- MODULE Spec2Model ----
(***************************************************************************)
(* A model of matriisi's synchronisation engine: the per-room state store  *)
(* (Room._state_events, Room._update_state, Room.snapshot,                  *)
(* Room.find_event), the member-event resolver                              *)
(* (MatrixState._handle_m_room_member), the backfill loop                   *)
(* (MatrixState._backfill_events) and the sync pass                         *)
(* (MatrixState._process_joined_room, MatrixState.sync).                    *)
(*                                                                          *)
(* Python objects that are shared by reference (Room objects and the inner  *)
(* per-type dicts of Room._state_events) live in an explicit heap, so that  *)
(* aliasing between a live room and its snapshots is something the model    *)
(* can express.  Strings that the code parses (member state keys) are       *)
(* sequences of tokens; Identifier.parse takes them apart.                  *)
(***************************************************************************)
EXTENDS Integers, Sequences, FiniteSets, TLC

VARIABLES
    robjs,      \* heap of Room objects: reference -> [id, se, last]
    dicts,      \* heap of inner dicts of _state_events: address -> dict
    rooms,      \* MatrixState.rooms: room id -> reference into robjs
    applied,    \* history: per room id, the state events given to _update_state
    snaps,      \* history: retained snapshots, each with the view it had when taken
    pc,         \* where the sync loop stands
    synced,     \* the initial sync pass of RoboClient.run is over
    batch,      \* the MatrixSync being processed
    ri,         \* sync(): position in sync.room_data.joined
    events,     \* sync(): the semantic events collected in this pass
    sent,       \* history: the semantic events given to event_channel.send, in order
    next_batch, \* MatrixState.next_batch
    cached_events, \* MatrixState.cached_events
    bf,         \* _backfill_events: evts, token, and the page last fetched
    ctr,        \* raw events the server has produced so far
    last_call,  \* history: the last call of a resolver
    last_pass,  \* history: the batch of the last finished pass and what it collected
    polled,     \* history: how the last long-poll ended, and the timeouts in a row
    reply_calls, \* history: the calls of MessageReplyEvent.replied_to_message
    req,        \* the call of MatrixHttp.matrix_request in progress, and how it ended
    any_event_handlers, \* EventBus._any_event_handlers
    event_handlers,     \* EventBus._event_handlers: event type -> handlers
    loop,       \* where EventBus._run_loop stands
    received,   \* history: the events _read.receive() returned, in order
    starting,   \* _run_loop: the handlers it has still to start for the event
    borrowed,   \* CapacityLimiter: tokens borrowed
    running,    \* handler invocations in progress
    invoked,    \* history: the invocations started, in order
    raised      \* history: the invocation whose exception was logged last

heapVars == <<robjs, dicts, rooms>>
storeVars == <<applied, snaps>>
passVars == <<pc, synced, batch, ri, events, sent, next_batch,
              cached_events, bf, ctr, last_call, last_pass, polled,
              reply_calls, req>>
busVars == <<any_event_handlers, event_handlers, loop, received, starting,
             borrowed, running, invoked, raised>>
vars == <<heapVars, storeVars, passVars, busVars>>

----------------------------------------------------------------------------
(* Bounds of the model.                                                    *)

MaxApply == 3       \* _update_state calls explored on one store
MaxResolve == 3     \* member events replayed on one known room
MaxEvents == 3      \* raw events the server produces in one run
MaxRoomsEvents == 2 \* raw events the server produces in one run on two rooms
MaxGapEvents == 2   \* raw events the server produces in one run with truncated timelines
MaxFetches == 2     \* page fetches of one backfill
MaxPage == 1        \* events of one page the client has not seen
MaxHistory == 101   \* events of the fixed history of a backfill
MaxTimeouts == 2    \* long-polls in a row that time out
MaxTasks == 2       \* capacity of the limiter of the event bus
MaxBusEvents == 3   \* events the dispatch loop receives in one run
MaxLiveEvents == 2  \* events the dispatch loop receives in one run with fairness
MaxClientEvents == 1 \* raw events the server produces in one run of the client
MaxReplyEvents == 3  \* raw events the server produces in one run with replies
MaxReplyCalls == 1   \* calls of replied_to_message in one run
MaxCacheEvents == 2  \* raw events replayed on a full cache in one run
MaxOrderEvents == 2  \* events the dispatch loop receives in a run on start order

----------------------------------------------------------------------------
(* Values.                                                                 *)

None == "None"
NoKey == <<"<no state_key>">>      \* the event has no state_key attribute
NoReply == 0                       \* relates_to.replying_to is None

Users == {"a", "b"}
RoomIds == {"r1", "r2"}

\* "@a:hs" as the sequence of its tokens
UserKey(u) == <<"@", u, ":", "hs">>
UserKeys == {UserKey(u) : u \in Users}
EmptyKey == <<>>                    \* state_key "" of m.room.create / m.room.name

VALID_SIGILS == {"@", "!", "$", "+", "#"}

\* index of the first ":" of s, 0 when there is none
RECURSIVE FirstColon(_, _)
FirstColon(s, i) ==
    IF i > Len(s) THEN 0
    ELSE IF s[i] = ":" THEN i
    ELSE FirstColon(s, i + 1)

\* Identifier.parse on a string: the sigil, then IDENTIFIER_REGEXP on the rest
\* (a localpart of at least one token without ":", a ":", a non-empty domain)
ParseError(what) == [sigil |-> what, localpart |-> <<>>, domain |-> <<>>]

IdentifierParse(s) ==
    IF Len(s) = 0 THEN ParseError("IndexError")
    ELSE IF Head(s) \notin VALID_SIGILS THEN ParseError("ValueError")
    ELSE LET rest == Tail(s)
             c    == FirstColon(rest, 1)
         IN  IF c < 2 \/ c = Len(rest) THEN ParseError("ValueError")
             ELSE [sigil     |-> Head(s),
                   localpart |-> SubSeq(rest, 1, c - 1),
                   domain    |-> SubSeq(rest, c + 1, Len(rest))]

\* Identifier.__str__
IdentifierStr(id) == <<id.sigil>> \o id.localpart \o <<":">> \o id.domain

UserIds == {IdentifierParse(k) : k \in UserKeys}

INVITE == "invite"
JOIN == "join"
KNOCK == "knock"
LEAVE == "leave"
BAN == "ban"
Memberships == {INVITE, JOIN, KNOCK, LEAVE, BAN}

M_MEMBER == "m.room.member"
M_CREATE == "m.room.create"
M_NAME == "m.room.name"
M_MESSAGE == "m.room.message"

\* Raw events, as _parse_room_event builds them.  membership is the member
\* content's field, reply the message content's relates_to.replying_to.
MemberEvents(eid) ==
    [type : {M_MEMBER}, state_key : UserKeys, sender : UserIds,
     membership : Memberships, reply : {NoReply}, event_id : {eid}]

NameEvents(eid) ==
    [type : {M_NAME}, state_key : {EmptyKey}, sender : UserIds,
     membership : {None}, reply : {NoReply}, event_id : {eid}]

CreateEvents(eid) ==
    [type : {M_CREATE}, state_key : {EmptyKey}, sender : UserIds,
     membership : {None}, reply : {NoReply}, event_id : {eid}]

StateEvents(eid) == MemberEvents(eid) \cup NameEvents(eid) \cup CreateEvents(eid)

HasStateKey(e) == e.state_key # NoKey

\* Python's None where an event is expected
NoEvent ==
    [type |-> None, state_key |-> NoKey, sender |-> ParseError(None),
     membership |-> None, reply |-> NoReply, event_id |-> 0]

----------------------------------------------------------------------------
(* The heap and the Room class.  A heap H is [robjs, dicts]: a new Room    *)
(* object gets the lowest reference not in use, and the dict that Room     *)
(* object r creates for type typ has the address <<r, typ>>.  An object    *)
(* nothing refers to any more is freed (CPython's reference counting).     *)

EmptyFn == [x \in {} |-> 0]

Put(f, k, v) == [x \in DOMAIN f \cup {k} |-> IF x = k THEN v ELSE f[x]]
Pop(f, k) == [x \in DOMAIN f \ {k} |-> f[x]]

Heap == [robjs |-> robjs, dicts |-> dicts]
EmptyHeap == [robjs |-> EmptyFn, dicts |-> EmptyFn]

\* the lowest reference not in use
NewRef(H) ==
    CHOOSE n \in 1..(Cardinality(DOMAIN H.robjs) + 1) :
        /\ n \notin DOMAIN H.robjs
        /\ \A m \in 1..(n - 1) : m \in DOMAIN H.robjs

\* the last reference to Room object r is dropped: the object goes, and so
\* does every dict that no remaining Room object holds
Free(H, r) ==
    LET ro   == Pop(H.robjs, r)
        held == UNION {{ro[x].se[t] : t \in DOMAIN ro[x].se} : x \in DOMAIN ro}
    IN  [robjs |-> ro,
         dicts |-> [a \in DOMAIN H.dicts \cap held |-> H.dicts[a]]]

\* Room.__init__: an empty defaultdict and an empty last known event id
NewRoom(H, rid) ==
    [H   |-> [H EXCEPT !.robjs = Put(@, NewRef(H), [id |-> rid, se |-> EmptyFn, last |-> 0])],
     ref |-> NewRef(H)]

\* self._state_events[typ] on the defaultdict: a missing type gets a new
\* empty dict, which stays in the mapping
Subdict(H, r, typ) ==
    IF typ \in DOMAIN H.robjs[r].se
    THEN [H |-> H, d |-> H.robjs[r].se[typ]]
    ELSE [H |-> [robjs |-> [H.robjs EXCEPT ![r].se = Put(@, typ, <<r, typ>>)],
                 dicts |-> Put(H.dicts, <<r, typ>>, EmptyFn)],
          d |-> <<r, typ>>]

\* Room.find_event with a state key
FindEvent(H, r, typ, key) ==
    LET s == Subdict(H, r, typ)
        d == s.H.dicts[s.d]
    IN  [H |-> s.H, evt |-> IF key \in DOMAIN d THEN d[key] ELSE NoEvent]

\* what find_event returns, without the heap it leaves behind
Get(H, r, typ, key) == FindEvent(H, r, typ, key).evt

\* _update_state without the special case for LEAVE
UpdateStateKeepsLeave(H, r, e) ==
    LET H1 == [H EXCEPT !.robjs[r].last = e.event_id]
    IN  IF ~HasStateKey(e) THEN H1
        ELSE LET s == Subdict(H1, r, e.type)
             IN  [s.H EXCEPT !.dicts[s.d] = Put(@, e.state_key, e)]

\* _update_state storing the event as the only entry of its type
UpdateStateReplacesSubdict(H, r, e) ==
    LET H1 == [H EXCEPT !.robjs[r].last = e.event_id]
    IN  IF ~HasStateKey(e) THEN H1
        ELSE LET s == Subdict(H1, r, e.type)
             IN  IF e.type = M_MEMBER /\ e.membership = LEAVE
                 THEN [s.H EXCEPT !.dicts[s.d] = Pop(@, e.state_key)]
                 ELSE [s.H EXCEPT !.dicts[s.d] = Put(EmptyFn, e.state_key, e)]

\* Room._update_state
UpdateState(H, r, e) ==
    LET H1 == [H EXCEPT !.robjs[r].last = e.event_id]
    IN  IF ~HasStateKey(e) THEN H1
        ELSE LET s == Subdict(H1, r, e.type)
             IN  IF e.type = M_MEMBER /\ e.membership = LEAVE
                 THEN [s.H EXCEPT !.dicts[s.d] = Pop(@, e.state_key)]
                 ELSE [s.H EXCEPT !.dicts[s.d] = Put(@, e.state_key, e)]

\* the copies d[typ] = subdict.copy() of Room.snapshot, one type after the other
RECURSIVE CopySubdicts(_, _, _, _)
CopySubdicts(H, from, to, types) ==
    IF types = {} THEN H
    ELSE LET typ == CHOOSE t \in types : TRUE
             H1  == [robjs |-> [H.robjs EXCEPT ![to].se = Put(@, typ, <<to, typ>>)],
                     dicts |-> Put(H.dicts, <<to, typ>>, H.dicts[H.robjs[from].se[typ]])]
         IN  CopySubdicts(H1, from, to, types \ {typ})

\* snapshot with d[typ] = subdict, the inner dicts not copied
SnapshotShallow(H, r) ==
    LET n == NewRoom(H, H.robjs[r].id)
    IN  [H   |-> [n.H EXCEPT !.robjs[n.ref].se = H.robjs[r].se],
         ref |-> n.ref]

\* Room.snapshot
Snapshot(H, r) ==
    LET n == NewRoom(H, H.robjs[r].id)
    IN  [H   |-> CopySubdicts(n.H, r, n.ref, DOMAIN H.robjs[r].se),
         ref |-> n.ref]

\* Room.member: [member, raised].  member is the event of the RoomMember
\* object returned, NoEvent for None.  For a JOIN entry the code calls
\* RoomMember(event, self), two arguments for a constructor that takes
\* (client, room, event): the call raises TypeError.
RoomMember(H, r, id) ==
    LET e == Get(H, r, M_MEMBER, IdentifierStr(id))
    IN  IF e = NoEvent THEN [member |-> NoEvent, raised |-> None]
        ELSE IF e.membership # JOIN THEN [member |-> NoEvent, raised |-> None]
        ELSE [member |-> NoEvent, raised |-> "TypeError"]

----------------------------------------------------------------------------
(* Semantic events and the resolvers of MatrixState.                       *)

NoId == ParseError(None)
IsParseError(id) == id.localpart = <<>>

\* A semantic event: tag is its class, room the Room object it carries, who /
\* by / flag its own fields in the order of the class.  src is not a field
\* of the class: it names the raw event the semantic event was made from.
Sem(tag, room, who, by, flag, e) ==
    [tag |-> tag, room |-> room, who |-> who, by |-> by, flag |-> flag,
     src |-> e.event_id]
NoSem == Sem(None, 0, NoId, NoId, FALSE, NoEvent)

\* the outcome of a resolver call: what it returned or what it raised
Returned(H, res) == [H |-> H, res |-> res, raised |-> None]
Raised(H, what) == [H |-> H, res |-> NoSem, raised |-> what]

\* a branch of _handle_m_room_member that parses the state key first
WithParsedKey(H, e, res) ==
    IF IsParseError(IdentifierParse(e.state_key))
    THEN Raised(H, IdentifierParse(e.state_key).sigil)
    ELSE Returned(H, res)

\* _handle_m_room_member with "if pm != nm" left out
HandleMemberNoChangeGuard(H, before, snapshot, e) ==
    LET f   == FindEvent(H, before, M_MEMBER, e.state_key)
        pm  == IF f.evt = NoEvent THEN LEAVE ELSE f.evt.membership
        nm  == e.membership
        key == IdentifierParse(e.state_key)
    IN  IF pm = INVITE /\ nm = JOIN
        THEN Returned(f.H, Sem("MemberJoined", snapshot, e.sender, NoId, TRUE, e))
        ELSE IF pm = INVITE /\ nm = LEAVE
        THEN WithParsedKey(f.H, e,
               IF e.sender = key
               THEN Sem("MemberInviteRejected", snapshot, e.sender, NoId, FALSE, e)
               ELSE Sem("MemberInviteRevoked", snapshot, key, e.sender, FALSE, e))
        ELSE IF pm = JOIN /\ nm = LEAVE
        THEN WithParsedKey(f.H, e,
               IF e.sender = key
               THEN Sem("MemberLeft", snapshot, key, NoId, FALSE, e)
               ELSE Sem("MemberKicked", snapshot, key, e.sender, FALSE, e))
        ELSE IF pm = LEAVE /\ nm = INVITE
        THEN WithParsedKey(f.H, e, Sem("MemberInvited", snapshot, key, e.sender, FALSE, e))
        ELSE IF pm = LEAVE /\ nm = JOIN
        THEN WithParsedKey(f.H, e, Sem("MemberJoined", snapshot, key, NoId, FALSE, e))
        ELSE IF pm = BAN /\ nm = LEAVE
        THEN WithParsedKey(f.H, e, Sem("MemberUnbanned", snapshot, key, e.sender, FALSE, e))
        ELSE IF nm = BAN
        THEN WithParsedKey(f.H, e, Sem("MemberBanned", snapshot, key, e.sender, pm = JOIN, e))
        ELSE Returned(f.H, NoSem)

\* _handle_m_room_member without the test event.sender == member_id: the
\* kick and revoke branches are taken for every sender
HandleMemberWrongActor(H, before, snapshot, e) ==
    LET f   == FindEvent(H, before, M_MEMBER, e.state_key)
        pm  == IF f.evt = NoEvent THEN LEAVE ELSE f.evt.membership
        nm  == e.membership
        key == IdentifierParse(e.state_key)
    IN  IF pm # nm
        THEN IF pm = INVITE /\ nm = JOIN
             THEN Returned(f.H, Sem("MemberJoined", snapshot, e.sender, NoId, TRUE, e))
             ELSE IF pm = INVITE /\ nm = LEAVE
             THEN WithParsedKey(f.H, e,
                    Sem("MemberInviteRevoked", snapshot, key, e.sender, FALSE, e))
             ELSE IF pm = JOIN /\ nm = LEAVE
             THEN WithParsedKey(f.H, e,
                    Sem("MemberKicked", snapshot, key, e.sender, FALSE, e))
             ELSE IF pm = LEAVE /\ nm = INVITE
             THEN WithParsedKey(f.H, e, Sem("MemberInvited", snapshot, key, e.sender, FALSE, e))
             ELSE IF pm = LEAVE /\ nm = JOIN
             THEN WithParsedKey(f.H, e, Sem("MemberJoined", snapshot, key, NoId, FALSE, e))
             ELSE IF pm = BAN /\ nm = LEAVE
             THEN WithParsedKey(f.H, e, Sem("MemberUnbanned", snapshot, key, e.sender, FALSE, e))
             ELSE IF nm = BAN
             THEN WithParsedKey(f.H, e, Sem("MemberBanned", snapshot, key, e.sender, pm = JOIN, e))
             ELSE Returned(f.H, NoSem)
        ELSE IF pm = JOIN /\ nm = JOIN
             THEN Raised(f.H, "NotImplementedError")
             ELSE Returned(f.H, NoSem)

\* MatrixState._handle_m_room_member.  The unsupported pairs log a warning
\* (stringify_event accepts None) and fall off the end, returning None.
HandleMember(H, before, snapshot, e) ==
    LET f   == FindEvent(H, before, M_MEMBER, e.state_key)
        pm  == IF f.evt = NoEvent THEN LEAVE ELSE f.evt.membership
        nm  == e.membership
        key == IdentifierParse(e.state_key)
    IN  IF pm # nm
        THEN IF pm = INVITE /\ nm = JOIN
             THEN Returned(f.H, Sem("MemberJoined", snapshot, e.sender, NoId, TRUE, e))
             ELSE IF pm = INVITE /\ nm = LEAVE
             THEN WithParsedKey(f.H, e,
                    IF e.sender = key
                    THEN Sem("MemberInviteRejected", snapshot, e.sender, NoId, FALSE, e)
                    ELSE Sem("MemberInviteRevoked", snapshot, key, e.sender, FALSE, e))
             ELSE IF pm = JOIN /\ nm = LEAVE
             THEN WithParsedKey(f.H, e,
                    IF e.sender = key
                    THEN Sem("MemberLeft", snapshot, key, NoId, FALSE, e)
                    ELSE Sem("MemberKicked", snapshot, key, e.sender, FALSE, e))
             ELSE IF pm = LEAVE /\ nm = INVITE
             THEN WithParsedKey(f.H, e, Sem("MemberInvited", snapshot, key, e.sender, FALSE, e))
             ELSE IF pm = LEAVE /\ nm = JOIN
             THEN WithParsedKey(f.H, e, Sem("MemberJoined", snapshot, key, NoId, FALSE, e))
             ELSE IF pm = BAN /\ nm = LEAVE
             THEN WithParsedKey(f.H, e, Sem("MemberUnbanned", snapshot, key, e.sender, FALSE, e))
             ELSE IF nm = BAN
             THEN WithParsedKey(f.H, e, Sem("MemberBanned", snapshot, key, e.sender, pm = JOIN, e))
             ELSE Returned(f.H, NoSem)
        ELSE IF pm = JOIN /\ nm = JOIN
             THEN Raised(f.H, "NotImplementedError")
             ELSE Returned(f.H, NoSem)

\* the mutant of HandleMessage that never looks at the relation
HandleMessageNeverReply(H, before, snapshot, e) ==
    Returned(H, Sem("MessageReceived", snapshot, NoId, NoId, FALSE, e))

\* MatrixState._handle_m_room_message
HandleMessage(H, before, snapshot, e) ==
    IF e.reply # NoReply
    THEN Returned(H, Sem("MessageReply", snapshot, NoId, NoId, FALSE, e))
    ELSE Returned(H, Sem("MessageReceived", snapshot, NoId, NoId, FALSE, e))

\* getattr(self, "_handle_" + type with "." replaced by "_", None)
HasHandler(e) == e.type \in {M_MEMBER, M_MESSAGE}

\* the resolver called with the two snapshots in the other order
CallHandlerSwapped(H, before, snapshot, e) ==
    IF e.type = M_MEMBER THEN HandleMember(H, snapshot, before, e)
    ELSE HandleMessage(H, snapshot, before, e)

CallHandler(H, before, snapshot, e) ==
    IF e.type = M_MEMBER THEN HandleMember(H, before, snapshot, e)
    ELSE HandleMessage(H, before, snapshot, e)

CACHE_MAXLEN == 1000

\* the mutant of CacheAppend: a deque without maxlen
CacheAppendUnbounded(c, e) == Append(c, e)

\* cached_events.append(evt) on a deque with maxlen: once full, the oldest
\* entry goes
CacheAppend(c, e) ==
    IF Len(c) >= CACHE_MAXLEN THEN Append(Tail(c), e) ELSE Append(c, e)

\* the mutant of ReplayEvent that calls the handlers for a new room too
ReplayEventAsKnown(H, room, wasKnown, e) ==
    LET Handled(h, before, snapshot) ==
            [H      |-> IF h.res = NoSem THEN Free(Free(h.H, before), snapshot)
                        ELSE Free(h.H, before),
             res    |-> h.res,
             raised |-> h.raised]
        Call(a, before) == Handled(CallHandler(a.H, before, a.ref, e), before, a.ref)
        Updated(H1, before) ==
            IF HasHandler(e)
            THEN Call(Snapshot(H1, room), before)
            ELSE [H |-> Free(H1, before), res |-> NoSem, raised |-> None]
        Snapshotted(b) ==
            Updated(IF HasStateKey(e) THEN UpdateState(b.H, room, e) ELSE b.H, b.ref)
    IN  Snapshotted(Snapshot(H, room))

\* the mutant of ReplayEvent that takes the before snapshot after the room
\* has been updated with the event
ReplayEventLateBefore(H, room, wasKnown, e) ==
    LET Handled(h, before, snapshot) ==
            [H      |-> IF h.res = NoSem THEN Free(Free(h.H, before), snapshot)
                        ELSE Free(h.H, before),
             res    |-> h.res,
             raised |-> h.raised]
        Call(a, before) == Handled(CallHandler(a.H, before, a.ref, e), before, a.ref)
        Updated(H1, before) ==
            IF wasKnown /\ HasHandler(e)
            THEN Call(Snapshot(H1, room), before)
            ELSE [H |-> Free(H1, before), res |-> NoSem, raised |-> None]
        Snapshotted(b) == Updated(b.H, b.ref)
    IN  Snapshotted(Snapshot(IF HasStateKey(e) THEN UpdateState(H, room, e) ELSE H, room))

\* One iteration of the replay loop of _process_joined_room on Room object
\* room: [H, res, raised, before, after], where before and after describe
\* the two snapshots by what get() returns on them.  The before snapshot is
\* dropped at the end of the iteration, the other one unless an event holds it.
ReplayEvent(H, room, wasKnown, e) ==
    LET Handled(h, before, snapshot) ==
            [H      |-> IF h.res = NoSem THEN Free(Free(h.H, before), snapshot)
                        ELSE Free(h.H, before),
             res    |-> h.res,
             raised |-> h.raised]
        Call(a, before) == Handled(CallHandler(a.H, before, a.ref, e), before, a.ref)
        Updated(H1, before) ==
            IF wasKnown /\ HasHandler(e)
            THEN Call(Snapshot(H1, room), before)
            ELSE [H |-> Free(H1, before), res |-> NoSem, raised |-> None]
        Snapshotted(b) ==
            Updated(IF HasStateKey(e) THEN UpdateState(b.H, room, e) ELSE b.H, b.ref)
    IN  Snapshotted(Snapshot(H, room))

----------------------------------------------------------------------------
(* The room store on its own: one Room, _update_state, snapshot and        *)
(* find_event.                                                              *)

StateTypes == {M_MEMBER, M_NAME, M_CREATE}
Slots == {<<typ, key>> : typ \in StateTypes, key \in UserKeys \cup {EmptyKey}}

\* what get() returns on room object r for every (type, key)
View(H, r) == [s \in Slots |-> Get(H, r, s[1], s[2])]

\* find_event for every (type, key), one call after the other
RECURSIVE FindAll(_, _, _)
FindAll(H, r, slots) ==
    IF slots = {} THEN H
    ELSE LET s == CHOOSE x \in slots : TRUE
         IN  FindAll(FindEvent(H, r, s[1], s[2]).H, r, slots \ {s})

StoreRoom == "r1"

NoBatch == [next_batch |-> 0, joined |-> <<>>]
NoPage == [chunk |-> <<>>, end |-> 0]
NoBackfill == [evts |-> <<>>, token |-> 0, fetches |-> 0, page |-> NoPage, last |-> 0]
NoCall == [prev |-> NoEvent, e |-> NoEvent, res |-> NoSem, raised |-> None]
NoPass == [rooms |-> <<>>, initial |-> FALSE, emitted |-> <<>>, n |-> 0]

\* the sync loop's variables before the first pass
\* the event types of the bus model
EventTypes == {"MessageReceived", "MessageReply"}

\* an invocation of a handler is [event |-> position of the event among
\* those received, handler |-> the handler]; a logged failure is an
\* invocation and the number of invocations started when it was logged
NoFailure == [event |-> 0, handler |-> "none", at |-> 0]

\* the event bus after construction: nothing registered, nothing received
BusIdle ==
    /\ any_event_handlers = <<>>
    /\ event_handlers = [t \in EventTypes |-> <<>>]
    /\ loop = "receive"
    /\ received = <<>>
    /\ starting = <<>>
    /\ borrowed = 0
    /\ running = {}
    /\ invoked = <<>>
    /\ raised = NoFailure

\* no long-poll has ended yet
NoPoll == [outcome |-> "none", timeouts |-> 0]

\* no response: it stands for None where a body is expected
NoResponse == [status_code |-> 0, content_type |-> None, errcode |-> None,
               retry_after_ms |-> 0]

\* no call of matrix_request yet.  try_ is the loop variable, json what the
\* next request is sent with, resp the response handled last, value what
\* the call returned, raised what it raised, slept the milliseconds spent
\* in trio.sleep
NoRequest == [state |-> "idle", try_ |-> 0, json |-> None, resp |-> NoResponse,
              value |-> NoResponse, raised |-> None, slept |-> 0]

PassIdle(at, isSynced) ==
    /\ polled = NoPoll
    /\ reply_calls = <<>>
    /\ req = NoRequest
    /\ pc = at
    /\ synced = isSynced
    /\ batch = NoBatch
    /\ ri = 0
    /\ events = <<>>
    /\ sent = <<>>
    /\ next_batch = 0
    /\ cached_events = <<>>
    /\ bf = NoBackfill
    /\ ctr = 0
    /\ last_call = NoCall
    /\ last_pass = NoPass

\* the store never reads the sender: one sender is enough here
StoreEvents(eid) == {e \in StateEvents(eid) : e.sender = IdentifierParse(UserKey("a"))}

StoreInit ==
    LET n == NewRoom(EmptyHeap, StoreRoom)
    IN  /\ robjs = n.H.robjs
        /\ dicts = n.H.dicts
        /\ rooms = [x \in {StoreRoom} |-> n.ref]
        /\ applied = [x \in {StoreRoom} |-> <<>>]
        /\ snaps = <<>>
        /\ PassIdle("store", FALSE)
        /\ BusIdle

StoreApply ==
    /\ Len(applied[StoreRoom]) < MaxApply
    /\ \E e \in StoreEvents(Len(applied[StoreRoom]) + 1) :
         LET H1 == UpdateState(Heap, rooms[StoreRoom], e)
         IN  /\ robjs' = H1.robjs
             /\ dicts' = H1.dicts
             /\ applied' = [applied EXCEPT ![StoreRoom] = Append(@, e)]
    /\ UNCHANGED <<busVars, rooms, snaps, passVars>>

\* snap = room.snapshot(): the application keeps the latest snapshot, the
\* one it held before is dropped
StoreSnapshot ==
    /\ LET H0 == IF snaps = <<>> THEN Heap ELSE Free(Heap, snaps[1].ref)
           s  == Snapshot(H0, rooms[StoreRoom])
       IN  /\ robjs' = s.H.robjs
           /\ dicts' = s.H.dicts
           /\ snaps' = <<[ref |-> s.ref, view |-> View(Heap, rooms[StoreRoom]),
                         at |-> Len(applied[StoreRoom])]>>
    /\ UNCHANGED <<busVars, rooms, applied, passVars>>

\* the application reads a snapshot: find_event on every (type, key), which
\* leaves an empty dict behind for every type the snapshot did not hold
StoreRead ==
    /\ \E i \in 1..Len(snaps) :
         LET H1 == FindAll(Heap, snaps[i].ref, Slots)
         IN  /\ H1 # Heap
             /\ robjs' = H1.robjs
             /\ dicts' = H1.dicts
    /\ UNCHANGED <<busVars, rooms, applied, snaps, passVars>>

StoreNext == StoreApply \/ StoreSnapshot \/ StoreRead

SpecStore == StoreInit /\ [][StoreNext]_vars

----------------------------------------------------------------------------
(* Claims about the room store, checked under SpecStore.                   *)

LiveStore == rooms[StoreRoom]
StoreApplied == applied[StoreRoom]

IsSlot(e, s) == e.type = s[1] /\ e.state_key = s[2]

\* the last event of seq for slot s, NoEvent when there is none
RECURSIVE LastFor(_, _)
LastFor(seq, s) ==
    IF seq = <<>> THEN NoEvent
    ELSE IF IsSlot(seq[Len(seq)], s) THEN seq[Len(seq)]
    ELSE LastFor(SubSeq(seq, 1, Len(seq) - 1), s)

IsLeave(e) == e.type = M_MEMBER /\ e.membership = LEAVE

\* what the store is to hold for slot s after the events of seq
Expected(seq, s) ==
    LET l == LastFor(seq, s)
    IN  IF IsLeave(l) THEN NoEvent ELSE l

\* C4: after any sequence of apply() calls, get(type, key) is the most
\* recently applied event for (type, key); it is absent when no event was
\* applied for the key or when the most recent one was a member leave.
C4_GetReturnsLatest ==
    \A s \in Slots : Get(Heap, LiveStore, s[1], s[2]) = Expected(StoreApplied, s)

\* C4's case: A joined and then left (absent), while B's latest event is returned
C4_Witness ==
    /\ Len(StoreApplied) = 3
    /\ StoreApplied[1].type = M_MEMBER /\ StoreApplied[1].membership = JOIN
    /\ StoreApplied[1].state_key = UserKey("a")
    /\ StoreApplied[2].type = M_MEMBER /\ StoreApplied[2].membership = BAN
    /\ StoreApplied[2].state_key = UserKey("b")
    /\ IsLeave(StoreApplied[3]) /\ StoreApplied[3].state_key = UserKey("a")
    /\ Get(Heap, LiveStore, M_MEMBER, UserKey("a")) = NoEvent
    /\ Get(Heap, LiveStore, M_MEMBER, UserKey("b")) = StoreApplied[2]

\* every entry of the live store sits under its own (type, state_key)
OneEntryPerSlot ==
    \A typ \in DOMAIN robjs[LiveStore].se :
      \A k \in DOMAIN dicts[robjs[LiveStore].se[typ]] :
        LET e == dicts[robjs[LiveStore].se[typ]][k]
        IN  e.type = typ /\ e.state_key = k

NoLeaveStored ==
    \A s \in Slots : ~IsLeave(Get(Heap, LiveStore, s[1], s[2]))

\* an entry goes or changes only in a step that applies an event for its slot
RetainedUntilSuperseded ==
    \A s \in Slots :
      LET e == Get(Heap, LiveStore, s[1], s[2])
      IN  (e # NoEvent /\ Get(Heap, LiveStore, s[1], s[2])' # e)
            => /\ Len(StoreApplied') = Len(StoreApplied) + 1
               /\ IsSlot(StoreApplied'[Len(StoreApplied')], s)

\* C5: in every reachable state of a room store there is at most one entry
\* per (type, state_key) and no stored membership entry is LEAVE; an entry
\* (INVITE, JOIN, BAN, KNOCK, or other state) stays stored until a later
\* event for the same key supersedes or removes it.
C5_StoreInvariant ==
    /\ [](OneEntryPerSlot /\ NoLeaveStored)
    /\ [][RetainedUntilSuperseded]_vars

\* C5's case: an invite was kept while events for another key came and went
C5_Witness ==
    /\ Len(StoreApplied) = 3
    /\ StoreApplied[1].membership = INVITE /\ StoreApplied[1].state_key = UserKey("a")
    /\ StoreApplied[2].membership = KNOCK /\ StoreApplied[2].state_key = UserKey("b")
    /\ IsLeave(StoreApplied[3]) /\ StoreApplied[3].state_key = UserKey("b")
    /\ Get(Heap, LiveStore, M_MEMBER, UserKey("a")) = StoreApplied[1]
    /\ Get(Heap, LiveStore, M_MEMBER, UserKey("b")) = NoEvent

\* C6: a snapshot is not affected by any later apply() on the live store:
\* get() on the snapshot returns, for every type and state key, what the
\* live store returned when the snapshot was taken.
C6_SnapshotIsolation ==
    \A i \in 1..Len(snaps) : View(Heap, snaps[i].ref) = snaps[i].view

\* C6's case: after the snapshot, the live store lost an entry the snapshot
\* holds and gained a type the snapshot does not hold
C6_Witness ==
    \E i \in 1..Len(snaps) :
      /\ snaps[i].view[<<M_MEMBER, UserKey("a")>>] # NoEvent
      /\ Get(Heap, LiveStore, M_MEMBER, UserKey("a")) = NoEvent
      /\ snaps[i].view[<<M_NAME, EmptyKey>>] = NoEvent
      /\ Get(Heap, LiveStore, M_NAME, EmptyKey) # NoEvent
      /\ View(Heap, snaps[i].ref) = snaps[i].view

----------------------------------------------------------------------------
(* The member resolver on a known room: the loop body of                   *)
(* _process_joined_room, one member event after the other.                 *)

ResolverRoom == "r1"

\* a registered room without state, as an initial sync of a room whose
\* batch holds no event leaves it
ResolverInit ==
    LET n == NewRoom(EmptyHeap, ResolverRoom)
    IN  /\ robjs = n.H.robjs
        /\ dicts = n.H.dicts
        /\ rooms = [x \in {ResolverRoom} |-> n.ref]
        /\ applied = [x \in {ResolverRoom} |-> <<>>]
        /\ snaps = <<>>
        /\ PassIdle("resolve", TRUE)
        /\ BusIdle

ResolveStep ==
    /\ pc = "resolve"
    /\ ctr < MaxResolve
    /\ \E e \in MemberEvents(ctr + 1) :
         LET r == ReplayEvent(Heap, rooms[ResolverRoom], TRUE, e)
         IN  /\ robjs' = r.H.robjs
             /\ dicts' = r.H.dicts
             /\ cached_events' = CacheAppend(cached_events, e)
             /\ applied' = [applied EXCEPT ![ResolverRoom] = Append(@, e)]
             /\ events' = IF r.res = NoSem THEN events ELSE Append(events, r.res)
             /\ last_call' = [prev   |-> Get(Heap, rooms[ResolverRoom], M_MEMBER, e.state_key),
                              e      |-> e,
                              res    |-> r.res,
                              raised |-> r.raised]
             /\ pc' = IF r.raised = None THEN "resolve" ELSE "crashed"
    /\ ctr' = ctr + 1
    /\ UNCHANGED <<req, reply_calls, busVars, polled, rooms, snaps, synced, batch, ri, sent, next_batch, bf,
                   last_pass>>

ResolverNext == ResolveStep

SpecResolver == ResolverInit /\ [][ResolverNext]_vars

----------------------------------------------------------------------------
(* Claims about the member resolver, checked under SpecResolver.           *)

Called == last_call.e # NoEvent
\* the previous membership of the call: "none" when the key had no entry
PrevOf(c) == IF c.prev = NoEvent THEN "none" ELSE c.prev.membership
NewOf(c) == c.e.membership
\* the sender is the member the event is about
BySelf(c) == IdentifierStr(c.e.sender) = c.e.state_key
Gave(c, tag) == c.raised = None /\ c.res.tag = tag

\* C1: for a known room, the resolver applied to a member event, with prev
\* the membership stored for the state key before the event, returns:
\* none/leave->join MemberJoined(wasInvited=false); invite->join
\* MemberJoined(wasInvited=true); invite->leave MemberInviteRejected when
\* sender = affected, else MemberInviteRevoked; join->leave MemberLeft when
\* sender = affected, else MemberKicked; none/leave->invite MemberInvited;
\* ban->leave MemberUnbanned.
C1_TransitionTable ==
    Called =>
      LET c == last_call
          pm == PrevOf(c)
          nm == NewOf(c)
      IN  /\ (pm \in {"none", LEAVE} /\ nm = JOIN)
                => Gave(c, "MemberJoined") /\ c.res.flag = FALSE
          /\ (pm = INVITE /\ nm = JOIN)
                => Gave(c, "MemberJoined") /\ c.res.flag = TRUE
          /\ (pm = INVITE /\ nm = LEAVE)
                => Gave(c, IF BySelf(c) THEN "MemberInviteRejected" ELSE "MemberInviteRevoked")
          /\ (pm = JOIN /\ nm = LEAVE)
                => Gave(c, IF BySelf(c) THEN "MemberLeft" ELSE "MemberKicked")
          /\ (pm \in {"none", LEAVE} /\ nm = INVITE)
                => Gave(c, "MemberInvited")
          /\ (pm = BAN /\ nm = LEAVE)
                => Gave(c, "MemberUnbanned")

\* C1's case: a member who was invited and joined leaves by their own event
C1_Witness ==
    /\ Called
    /\ PrevOf(last_call) = JOIN /\ NewOf(last_call) = LEAVE /\ BySelf(last_call)
    /\ last_call.res.tag = "MemberLeft"
    /\ \E i \in 1..Len(events) :
         /\ events[i].tag = "MemberJoined" /\ events[i].flag = TRUE
         /\ events[i].who = last_call.res.who

\* the (prev, new) pairs of the transition table
InTable(pm, nm) ==
    \/ pm \in {"none", LEAVE} /\ nm \in {JOIN, INVITE}
    \/ pm = INVITE /\ nm \in {JOIN, LEAVE}
    \/ pm = JOIN /\ nm = LEAVE
    \/ pm = BAN /\ nm = LEAVE
    \/ nm = BAN

\* C2: for every (prev, new) pair absent from the transition table the
\* resolver produces no semantic event and never raises, and the pass
\* goes on.
C2_UnmatchedYieldsNothing ==
    (Called /\ ~InTable(PrevOf(last_call), NewOf(last_call)))
      => /\ last_call.res = NoSem
         /\ last_call.raised = None
         /\ pc # "crashed"

----------------------------------------------------------------------------
(* The sync pass: RoboClient.run / _sync_loop feeding MatrixState.sync.    *)

SyncRooms == {"r1", "r2"}

UserId(u) == IdentifierParse(UserKey(u))

\* the raw events the server draws from, before they get their event id
MemberShape(u, by, m) ==
    [type |-> M_MEMBER, state_key |-> UserKey(u), sender |-> UserId(by),
     membership |-> m, reply |-> NoReply, event_id |-> 0]
CreateShape ==
    [type |-> M_CREATE, state_key |-> EmptyKey, sender |-> UserId("a"),
     membership |-> None, reply |-> NoReply, event_id |-> 0]
MessageShape ==
    [type |-> M_MESSAGE, state_key |-> NoKey, sender |-> UserId("a"),
     membership |-> None, reply |-> NoReply, event_id |-> 0]

StateShapes ==
    {CreateShape, MemberShape("a", "a", JOIN), MemberShape("b", "b", JOIN),
     MemberShape("b", "b", LEAVE)}
Shapes == StateShapes \cup {MessageShape}

Seqs(S, n) == [1..n -> S]
Stamp(shapes, base) ==
    [i \in 1..Len(shapes) |-> [shapes[i] EXCEPT !.event_id = base + i]]

\* the MatrixJoinedRoom entries the server may send for room rid, holding
\* at most k events with ids above base
\* and a timeline whose limited flag is one of LS; the state section holds
\* events of the shapes SS, the timeline events of the shapes SH
RoomDatas(rid, LS, SS, SH, base, k) ==
    UNION { UNION { { [room_id    |-> rid,
                       state      |-> Stamp(st, base),
                       timeline   |-> Stamp(tl, base + ns),
                       limited    |-> l,
                       prev_batch |-> 1]
                      : st \in Seqs(SS, ns), tl \in Seqs(SH, nt),
                        l \in LS }
                    : nt \in 0..(k - ns) }
            : ns \in 0..k }

SizeOf(rd) == Len(rd.state) + Len(rd.timeline)

\* sync.room_data.joined: a dict, so every room at most once, in any order
RECURSIVE Joined(_, _, _, _, _, _)
Joined(RS, LS, SS, SH, base, k) ==
    {<<>>} \cup
    UNION { UNION { { <<rd>> \o rest
                      : rest \in Joined(RS \ {r}, LS, SS, SH,
                                             base + SizeOf(rd), k - SizeOf(rd)) }
                    : rd \in RoomDatas(r, LS, SS, SH, base, k) }
            : r \in RS }

RECURSIVE TotalSize(_)
TotalSize(j) == IF j = <<>> THEN 0 ELSE SizeOf(Head(j)) + TotalSize(Tail(j))

RoomData == batch.joined[ri]
LiveRefs == {rooms[x] : x \in DOMAIN rooms}

SyncInit ==
    /\ robjs = EmptyFn
    /\ dicts = EmptyFn
    /\ rooms = EmptyFn
    /\ applied = [x \in SyncRooms |-> <<>>]
    /\ snaps = <<>>
    /\ PassIdle("poll", FALSE)
    /\ BusIdle

\* http_client.sync() returns and MatrixState.sync starts on its result: a
\* batch for rooms of RS, limited flags of LS, events of the shapes SS and
\* SH, and at most K raw events in the whole run
SyncStart(RS, LS, SS, SH, K) ==
    /\ pc = "poll"
    /\ \E j \in Joined(RS, LS, SS, SH, ctr, K - ctr) :
         /\ batch' = [next_batch |-> ctr + TotalSize(j), joined |-> j]
         /\ next_batch' = ctr + TotalSize(j)
         /\ ctr' = ctr + TotalSize(j)
    /\ events' = <<>>
    /\ ri' = 1
    /\ pc' = "room"
    /\ polled' = [outcome |-> "batch", timeouts |-> 0]
    /\ UNCHANGED <<req, reply_calls, busVars, heapVars, storeVars, synced, sent, cached_events, bf, last_call,
                   last_pass>>

\* the replay loop of _process_joined_room over matrix_events evs, on the
\* Room object room registered as rid; st holds what the loop changes.  The
\* loop has no checkpoint: nothing else runs between its iterations.  An
\* exception leaves it at once.
RECURSIVE ReplayAll(_, _, _, _, _)
ReplayAll(st, room, rid, wasKnown, evs) ==
    IF evs = <<>> \/ st.raised # None THEN st
    ELSE LET After(e, r) ==
                 [H             |-> r.H,
                  cached_events |-> CacheAppend(st.cached_events, e),
                  applied       |-> IF HasStateKey(e)
                                    THEN [st.applied EXCEPT ![rid] = Append(@, e)]
                                    ELSE st.applied,
                  events        |-> IF r.res = NoSem THEN st.events
                                    ELSE Append(st.events, r.res),
                  last_call     |-> IF wasKnown /\ HasHandler(e)
                                    THEN [prev   |-> IF HasStateKey(e)
                                                     THEN Get(st.H, room, e.type, e.state_key)
                                                     ELSE NoEvent,
                                          e      |-> e,
                                          res    |-> r.res,
                                          raised |-> r.raised]
                                    ELSE st.last_call,
                  raised        |-> r.raised]
         IN  ReplayAll(After(Head(evs), ReplayEvent(st.H, room, wasKnown, Head(evs))),
                       room, rid, wasKnown, Tail(evs))

\* the state after the replay loop; the pass goes on to the next room, or
\* dies with the exception
Replayed(H, evs0, room, rid, wasKnown, evs) ==
    \E st \in {ReplayAll([H |-> H, cached_events |-> cached_events, applied |-> applied,
                          events |-> evs0, last_call |-> last_call, raised |-> None],
                         room, rid, wasKnown, evs)} :
        /\ robjs' = st.H.robjs
        /\ dicts' = st.H.dicts
        /\ cached_events' = st.cached_events
        /\ applied' = st.applied
        /\ events' = st.events
        /\ last_call' = st.last_call
        /\ pc' = IF st.raised # None THEN "crashed" ELSE "room"
        /\ ri' = IF st.raised # None THEN ri ELSE ri + 1

\* the mutant of MustBackfill that never backfills
MustBackfillNever(rd) == FALSE

\* "if not dont_backfill and room_data.timeline.limited" for a known room
MustBackfill(rd) == synced /\ rd.limited

\* _process_joined_room for the next room of the batch, up to its first
\* checkpoint: the call of get_events when it backfills, its end otherwise
ProcessRoom ==
    /\ pc = "room"
    /\ ri <= Len(batch.joined)
    /\ LET rd == RoomData
           me == rd.state \o rd.timeline
       IN  IF rd.room_id \in DOMAIN rooms
           THEN /\ IF MustBackfill(rd)
                   THEN /\ pc' = "backfill"
                        /\ bf' = [evts |-> <<>>, token |-> rd.prev_batch, fetches |-> 0,
                                  page |-> NoPage, last |-> robjs[rooms[rd.room_id]].last]
                        /\ UNCHANGED <<robjs, dicts, cached_events, applied, events,
                                       last_call, ri>>
                   ELSE /\ Replayed(Heap, events, rooms[rd.room_id], rd.room_id, TRUE, me)
                        /\ UNCHANGED bf
                /\ UNCHANGED rooms
           ELSE LET n == NewRoom(Heap, rd.room_id)
                IN  /\ rooms' = Put(rooms, rd.room_id, n.ref)
                    /\ Replayed(n.H,
                                Append(events, Sem("RoomJoinedByMe", n.ref, NoId, NoId,
                                                   FALSE, NoEvent)),
                                n.ref, rd.room_id, FALSE, me)
                    /\ UNCHANGED bf
    /\ UNCHANGED <<req, reply_calls, busVars, polled, snaps, synced, batch, sent, next_batch, ctr, last_pass>>

PAGE_LIMIT == 50
Min(S) == CHOOSE x \in S : \A y \in S : x <= y

\* the event the room's last known event id names, as the server returns it
KnownEvent(id) ==
    LET i == CHOOSE i \in 1..Len(cached_events) : cached_events[i].event_id = id
    IN  cached_events[i]
IsCached(id) == \E i \in 1..Len(cached_events) : cached_events[i].event_id = id

\* the events of seq whose id is not in seen, each id once, in the order of
\* their first occurrence
RECURSIVE Distinct(_, _)
Distinct(seq, seen) ==
    IF seq = <<>> THEN <<>>
    ELSE IF Head(seq).event_id \in seen THEN Distinct(Tail(seq), seen)
    ELSE <<Head(seq)>> \o Distinct(Tail(seq), seen \cup {Head(seq).event_id})

Reverse(seq) == [i \in 1..Len(seq) |-> seq[Len(seq) + 1 - i]]

\* the part of the room's history the client has replayed already, from the
\* newest such event back to the event with the last known id: the server
\* keeps every event of the room, the messages that came after the last
\* state event included
KnownTail(id) ==
    LET first == CHOOSE i \in 1..Len(cached_events) :
                    /\ cached_events[i].event_id = id
                    /\ \A j \in 1..(i - 1) : cached_events[j].event_id # id
    IN  Reverse(Distinct(SubSeq(cached_events, first + 1, Len(cached_events)), {id}))
            \o <<KnownEvent(id)>>

\* the answers of get_events(from_token=token, reverse=True, limit=50):
\* events the client has not seen, newest first, then possibly the history
\* it has seen, back to the event with the last known id; end is 0 (None)
\* at the end of the history
Pages(token, base, k, lastid) ==
    UNION { { [chunk |-> Stamp(c, base) \o m, end |-> en]
              : c \in Seqs(Shapes, n),
                m \in {<<>>} \cup (IF IsCached(lastid) THEN {KnownTail(lastid)} ELSE {}),
                en \in {0, token + 1} }
            : n \in 0..Min({k, PAGE_LIMIT, MaxPage}) }

\* the for loop over events.chunk with append instead of appendleft
RECURSIVE ScanAppending(_, _, _)
ScanAppending(chunk, evts, lastid) ==
    IF chunk = <<>> THEN [found |-> FALSE, evts |-> evts]
    ELSE IF Head(chunk).event_id = lastid THEN [found |-> TRUE, evts |-> evts]
    ELSE ScanAppending(Tail(chunk), Append(evts, Head(chunk)), lastid)

\* the for loop over events.chunk: [found, evts]
RECURSIVE Scan(_, _, _)
Scan(chunk, evts, lastid) ==
    IF chunk = <<>> THEN [found |-> FALSE, evts |-> evts]
    ELSE IF Head(chunk).event_id = lastid THEN [found |-> TRUE, evts |-> evts]
    ELSE Scan(Tail(chunk), <<Head(chunk)>> \o evts, lastid)

\* number of chunk events the client had not seen
Fresh(page) == Cardinality({i \in 1..Len(page.chunk) : page.chunk[i].event_id > ctr})

\* one iteration of the while loop of _backfill_events: a page is fetched
\* and scanned; the same token gets the same page again.  When the scan
\* finds the last known id, _process_joined_room goes on to its end.
BackfillFetch(K) ==
    /\ pc = "backfill"
    /\ bf.fetches < MaxFetches
    /\ \E page \in (IF bf.fetches > 0 /\ bf.page.end = 0
                     THEN {bf.page}
                     ELSE Pages(bf.token, ctr, K - ctr, bf.last)) :
         LET sc == Scan(page.chunk, bf.evts, bf.last)
         IN  /\ ctr' = ctr + Fresh(page)
             /\ IF sc.found
                THEN /\ Replayed(Heap, events, rooms[RoomData.room_id], RoomData.room_id,
                                 TRUE, sc.evts \o RoomData.state \o RoomData.timeline)
                     /\ bf' = NoBackfill
                ELSE /\ bf' = [bf EXCEPT !.evts = sc.evts,
                                         !.token = IF page.end = 0 THEN @ ELSE page.end,
                                         !.fetches = @ + 1,
                                         !.page = page]
                     /\ UNCHANGED <<robjs, dicts, cached_events, applied, events,
                                    last_call, pc, ri>>
    /\ UNCHANGED <<req, reply_calls, busVars, polled, rooms, snaps, synced, batch, sent, next_batch, last_pass>>

\* the events of a dropped list let go of their snapshots
RECURSIVE DropEvents(_, _)
DropEvents(H, evs) ==
    IF evs = <<>> THEN H
    ELSE DropEvents(IF Head(evs).room \in LiveRefs \/ Head(evs).room \notin DOMAIN H.robjs
                    THEN H ELSE Free(H, Head(evs).room),
                    Tail(evs))

\* the mutant of PassEnd without "if initial_batch: return": the initial
\* pass goes on to send its events too, and is over when it has sent them
PassEndNeverDrops ==
    /\ pc = "room"
    /\ ri > Len(batch.joined)
    /\ last_pass' = [rooms   |-> [i \in 1..Len(batch.joined) |->
                                     [room_id |-> batch.joined[i].room_id,
                                      events  |-> batch.joined[i].state
                                                  \o batch.joined[i].timeline]],
                     initial |-> ~synced,
                     emitted |-> events,
                     n       |-> Len(sent)]
    /\ batch' = NoBatch
    /\ ri' = 0
    /\ synced' = (synced \/ events = <<>>)
    /\ pc' = IF events = <<>> THEN "poll" ELSE "send"
    /\ UNCHANGED <<events, robjs, dicts>>
    /\ UNCHANGED <<req, reply_calls, busVars, polled, rooms, storeVars, sent, next_batch, cached_events, bf, ctr, last_call>>

\* sync() after the loop over the rooms: the initial pass returns and drops
\* its events, every other pass goes on to send them
PassEnd ==
    /\ pc = "room"
    /\ ri > Len(batch.joined)
    /\ last_pass' = [rooms   |-> [i \in 1..Len(batch.joined) |->
                                     [room_id |-> batch.joined[i].room_id,
                                      events  |-> batch.joined[i].state
                                                  \o batch.joined[i].timeline]],
                     initial |-> ~synced,
                     emitted |-> events,
                     n       |-> Len(sent)]
    /\ batch' = NoBatch
    /\ ri' = 0
    /\ IF ~synced
       THEN /\ synced' = TRUE
            /\ events' = <<>>
            /\ \E H \in {DropEvents(Heap, events)} :
                 /\ robjs' = H.robjs
                 /\ dicts' = H.dicts
            /\ pc' = "poll"
       ELSE /\ pc' = IF events = <<>> THEN "poll" ELSE "send"
            /\ UNCHANGED <<synced, events, robjs, dicts>>
    /\ UNCHANGED <<req, reply_calls, busVars, polled, rooms, storeVars, sent, next_batch, cached_events, bf, ctr, last_call>>

\* the events of the pass sent from the end of the list
SendNewestFirst ==
    /\ pc = "send"
    /\ sent' = Append(sent, events[Len(events)])
    /\ events' = SubSeq(events, 1, Len(events) - 1)
    /\ pc' = IF Len(events) = 1 THEN "poll" ELSE "send"
    /\ UNCHANGED <<req, reply_calls, busVars, polled, heapVars, storeVars, synced, batch, ri, next_batch, cached_events, bf,
                   ctr, last_call, last_pass>>

\* the mutant of Send that sends inside the loop over the rooms of the
\* batch, as soon as a room has returned its events
SendDuringPass ==
    /\ pc \in {"send", "room"}
    /\ synced
    /\ events # <<>>
    /\ sent' = Append(sent, Head(events))
    /\ events' = Tail(events)
    /\ pc' = IF pc = "room" THEN "room"
              ELSE IF Tail(events) = <<>> THEN "poll" ELSE "send"
    /\ UNCHANGED <<req, reply_calls, busVars, polled, heapVars, storeVars, synced, batch, ri, next_batch, cached_events, bf,
                   ctr, last_call, last_pass>>

\* await self.event_channel.send(evt), one event after the other
Send ==
    /\ pc = "send"
    /\ sent' = Append(sent, Head(events))
    /\ events' = Tail(events)
    /\ pc' = IF Tail(events) = <<>> THEN "poll" ELSE "send"
    /\ UNCHANGED <<req, reply_calls, busVars, polled, heapVars, storeVars, synced, batch, ri, next_batch, cached_events, bf,
                   ctr, last_call, last_pass>>

Init == SyncInit

\* the passes on one room of a client whose server never truncates a timeline
PassRooms == {"r1"}

PassSyncStart == SyncStart(PassRooms, {FALSE}, StateShapes, Shapes, MaxEvents)

PassNext ==
    \/ PassSyncStart
    \/ ProcessRoom
    \/ PassEnd
    \/ Send

SpecPass == Init /\ [][PassNext]_vars

\* the same on two rooms, with the joins and leaves of one user in the
\* timelines
RoomsShapes == {MemberShape("b", "b", JOIN), MemberShape("b", "b", LEAVE)}

RoomsSyncStart == SyncStart(SyncRooms, {FALSE}, {}, RoomsShapes, MaxRoomsEvents)

RoomsNext ==
    \/ RoomsSyncStart
    \/ ProcessRoom
    \/ PassEnd
    \/ Send

SpecRooms == Init /\ [][RoomsNext]_vars

\* the passes on one room whose timelines may be truncated
GapRooms == {"r1"}

\* a pass starts while the cache holds no more than MaxGapEvents events: a
\* backfill may replay events again, so the number of replays is capped here
GapSyncStart ==
    /\ Len(cached_events) <= MaxGapEvents
    /\ SyncStart(GapRooms, BOOLEAN, StateShapes, Shapes, MaxGapEvents)
GapBackfillFetch == BackfillFetch(MaxGapEvents)

\* the mutant of PollTimedOut that gives up after the first timeout
PollTimedOutOnce ==
    /\ pc = "poll"
    /\ synced
    /\ polled.timeouts < MaxTimeouts
    /\ polled' = [outcome |-> "timeout", timeouts |-> polled.timeouts + 1]
    /\ pc' = IF polled.timeouts >= 1 THEN "crashed" ELSE pc
    /\ UNCHANGED <<req, reply_calls, busVars, heapVars, storeVars, synced, batch, ri, events, sent, next_batch,
                   cached_events, bf, ctr, last_call, last_pass>>

\* an iteration of _sync_loop whose long-poll is cancelled by
\* move_on_after(31): scope.cancel_called, a warning, and the next
\* iteration reads state.next_batch again
PollTimedOut ==
    /\ pc = "poll"
    /\ synced
    /\ polled.timeouts < MaxTimeouts
    /\ polled' = [outcome |-> "timeout", timeouts |-> polled.timeouts + 1]
    /\ UNCHANGED <<req, reply_calls, busVars, heapVars, storeVars, pc, synced, batch, ri, events, sent,
                   next_batch, cached_events, bf, ctr, last_call, last_pass>>

\* an iteration of _sync_loop whose long-poll raises (a transport error, an
\* error status): nothing in _sync_loop catches it, the exception leaves the
\* loop
PollFailed ==
    /\ pc = "poll"
    /\ synced
    /\ polled' = [outcome |-> "error", timeouts |-> polled.timeouts]
    /\ pc' = "crashed"
    /\ UNCHANGED <<req, reply_calls, busVars, heapVars, storeVars, synced, batch, ri, events, sent, next_batch,
                   cached_events, bf, ctr, last_call, last_pass>>

Next ==
    \/ PollTimedOut
    \/ PollFailed
    \/ GapSyncStart
    \/ ProcessRoom
    \/ GapBackfillFetch
    \/ PassEnd
    \/ Send

Spec == Init /\ [][Next]_vars

----------------------------------------------------------------------------
(* Claims about the sync pass.                                             *)

\* a pass has ended and nothing has touched the rooms since
PassOver == last_pass # NoPass /\ pc \in {"send", "poll"}

\* what get() must return for every (type, key) after applying evs in order
\* to an empty store
StateOf(evs) == [s \in Slots |-> Expected(evs, s)]

\* the semantic events sent since the last pass ended
SentOfPass == SubSeq(sent, last_pass.n + 1, Len(sent))

\* Room.member resolves id to a member object
Resolvable(H, r, id) ==
    LET m == RoomMember(H, r, id)
    IN  m.raised = None /\ m.member # NoEvent

\* Room.member finds no joined member for id
NotAMember(H, r, id) == RoomMember(H, r, id) = [member |-> NoEvent, raised |-> None]

C7_NothingEmitted ==
    last_pass.initial => sent = <<>> /\ (pc = "poll" => events = <<>>)

C7_Registered ==
    (PassOver /\ last_pass.initial) =>
        \A i \in 1..Len(last_pass.rooms) :
            /\ last_pass.rooms[i].room_id \in DOMAIN rooms
            /\ View(Heap, rooms[last_pass.rooms[i].room_id])
                 = StateOf(last_pass.rooms[i].events)

C7_JoinedResolvable ==
    (PassOver /\ last_pass.initial) =>
        \A i \in 1..Len(last_pass.rooms) : \A u \in Users :
            StateOf(last_pass.rooms[i].events)[<<M_MEMBER, UserKey(u)>>].membership = JOIN
                => Resolvable(Heap, rooms[last_pass.rooms[i].room_id], UserId(u))

\* C7 without its last part: the initial pass emits nothing, registers every
\* room of its batch, and leaves each room's store as the batch's events in
\* order make it.
C7_InitialPassStore == C7_NothingEmitted /\ C7_Registered

\* C7: a sync pass with initial_batch=True emits no semantic event; after it
\* every room of the batch is registered with the state its events give in
\* order, and every user that state has as joined (A and B of Scenario A)
\* can be resolved to a member with Room.member.
C7_InitialPass == C7_NothingEmitted /\ C7_Registered /\ C7_JoinedResolvable

\* Scenario A has run: the initial pass had one room with a create event and
\* the joins of a and b
C7_Witness ==
    /\ PassOver /\ last_pass.initial
    /\ Len(last_pass.rooms) = 1
    /\ Len(last_pass.rooms[1].events) = 3
    /\ last_pass.rooms[1].events[1].type = M_CREATE
    /\ \A u \in Users :
         StateOf(last_pass.rooms[1].events)[<<M_MEMBER, UserKey(u)>>].membership = JOIN

\* the pass that just ended had, for one room, the single event "b leaves",
\* and b was joined to the room before it
ScenarioB ==
    /\ PassOver /\ ~last_pass.initial
    /\ Len(last_pass.rooms) = 1
    /\ Len(last_pass.rooms[1].events) = 1
    /\ LET e   == last_pass.rooms[1].events[1]
           rid == last_pass.rooms[1].room_id
       IN  /\ e.type = M_MEMBER
           /\ e.state_key = UserKey("b")
           /\ e.sender = UserId("b")
           /\ e.membership = LEAVE
           /\ Len(applied[rid]) > 1
           /\ Expected(SubSeq(applied[rid], 1, Len(applied[rid]) - 1),
                       <<M_MEMBER, UserKey("b")>>).membership = JOIN

\* C8: after a baseline in which B is joined to known room R, a pass whose
\* batch for R is a single member event for B, sent by B, with membership
\* leave emits exactly one semantic event, MemberLeft(R, B), and afterwards
\* R has no membership entry for B and Room.member finds no member B.
C8_SelfLeave ==
    ScenarioB =>
        LET e   == last_pass.rooms[1].events[1]
            rid == last_pass.rooms[1].room_id
        IN  /\ Len(last_pass.emitted) = 1
            /\ last_pass.emitted[1].tag = "MemberLeft"
            /\ last_pass.emitted[1].who = UserId("b")
            /\ last_pass.emitted[1].src = e.event_id
            /\ robjs[last_pass.emitted[1].room].id = rid
            /\ pc = "poll" => SentOfPass = last_pass.emitted
            /\ Get(Heap, rooms[rid], M_MEMBER, UserKey("b")) = NoEvent
            /\ NotAMember(Heap, rooms[rid], UserId("b"))

C8_Witness == ScenarioB /\ pc = "poll"

\* the place of raw event id in the replay order
Pos(id) == CHOOSE k \in 1..Len(cached_events) : cached_events[k].event_id = id
\* the room a sent semantic event belongs to
RoomOf(ev) == robjs[ev.room].id
\* the place of room rid in the batch of the last pass
RoomIdx(rid) == CHOOSE k \in 1..Len(last_pass.rooms) : last_pass.rooms[k].room_id = rid

PerRoomFifo ==
    \A i \in 1..Len(sent) : \A j \in 1..Len(sent) :
        (i < j /\ RoomOf(sent[i]) = RoomOf(sent[j]) /\ sent[i].src # 0 /\ sent[j].src # 0)
            => Pos(sent[i].src) < Pos(sent[j].src)

BatchOrder ==
    (PassOver /\ ~last_pass.initial /\ pc = "poll") =>
        /\ SentOfPass = last_pass.emitted
        /\ \A i \in 1..Len(SentOfPass) : \A j \in 1..Len(SentOfPass) :
             i < j => RoomIdx(RoomOf(SentOfPass[i])) <= RoomIdx(RoomOf(SentOfPass[j]))

\* C9: the semantic events given to the event queue for one room are in the
\* order in which the raw events they were made from were replayed, within a
\* pass and across passes; the events of one pass are enqueued room by room
\* in the order of the rooms in the batch.
C9_QueueOrder == PerRoomFifo /\ BatchOrder

\* two events of one room from two raw events have been sent, and the last
\* pass sent events of two rooms
C9_Witness ==
    /\ PassOver /\ ~last_pass.initial /\ pc = "poll"
    /\ \E i \in 1..Len(sent) : \E j \in 1..Len(sent) :
         i < j /\ RoomOf(sent[i]) = RoomOf(sent[j]) /\ sent[i].src # 0 /\ sent[j].src # 0
    /\ \E i \in 1..Len(SentOfPass) : \E j \in 1..Len(SentOfPass) :
         RoomOf(SentOfPass[i]) # RoomOf(SentOfPass[j])

\* _backfill_events is about to call get_events although the page it
\* fetched last had no end token and did not hold the last known event id
Exhausted == pc = "backfill" /\ bf.fetches > 0 /\ bf.page.end = 0

\* C10: when reverse pagination reaches the end of the history (a page
\* without end token) and has not found the room's last known event id,
\* recovery stops: no further page is fetched.
C10_StopsAtEndOfHistory == [][Exhausted => bf'.fetches <= bf.fetches]_vars

----------------------------------------------------------------------------
(* _backfill_events against a server with a fixed history.                 *)

\* the event with id i of the history
HistoryEvent(i) == [MessageShape EXCEPT !.event_id = i]

\* the answer of get_events(from_token=token, reverse=True, limit=limit) on
\* a history of n events with ids 1..n: token t stands before the t-th
\* newest event, the chunk holds the next limit events newest first, end is
\* the token after them, 0 (None) when the history ends with the chunk
HistoryPage(n, token, limit) ==
    [chunk |-> [i \in 1..Min({limit, n + 1 - token}) |-> HistoryEvent(n + 1 - token - (i - 1))],
     end   |-> IF token + limit <= n THEN token + limit ELSE 0]

\* a room whose last known event has k newer events in a history of n
HistoryInit ==
    /\ robjs = EmptyFn
    /\ dicts = EmptyFn
    /\ rooms = EmptyFn
    /\ applied = [x \in SyncRooms |-> <<>>]
    /\ snaps = <<>>
    /\ pc = "backfill"
    /\ synced = TRUE
    /\ batch = NoBatch
    /\ ri = 0
    /\ events = <<>>
    /\ sent = <<>>
    /\ next_batch = 0
    /\ cached_events = <<>>
    /\ last_call = NoCall
    /\ last_pass = NoPass
    /\ polled = NoPoll
    /\ reply_calls = <<>>
    /\ req = NoRequest
    /\ BusIdle
    /\ ctr \in 1..MaxHistory
    /\ \E k \in 0..(ctr - 1) :
         bf = [evts |-> <<>>, token |-> 1, fetches |-> 0, page |-> NoPage, last |-> ctr - k]

\* one iteration of the while loop of _backfill_events; "rewound" is the
\* return of evts
HistoryFetch ==
    /\ pc = "backfill"
    /\ \E page \in {HistoryPage(ctr, bf.token, PAGE_LIMIT)} :
       \E sc \in {Scan(page.chunk, bf.evts, bf.last)} :
         /\ bf' = [bf EXCEPT !.evts = sc.evts,
                             !.token = IF sc.found \/ page.end = 0 THEN @ ELSE page.end,
                             !.fetches = @ + 1,
                             !.page = page]
         /\ pc' = IF sc.found THEN "rewound" ELSE "backfill"
    /\ UNCHANGED <<req, reply_calls, busVars, polled, heapVars, storeVars, synced, batch, ri, events, sent, next_batch,
                   cached_events, ctr, last_call, last_pass>>

HistoryNext == HistoryFetch

SpecHistory == HistoryInit /\ [][HistoryNext]_vars

\* the number of events newer than the last known one
Depth == ctr - bf.last

NewerEvents == [j \in 1..Depth |-> HistoryEvent(bf.last + j)]

\* every unfinished fetch left the token at the end token of its page
ContinuesFromEnd == (pc = "backfill" /\ bf.fetches > 0) => bf.token = bf.page.end

\* C11 as stated: with the last known event id at depth k, recovery returns
\* the k newer events, each once, oldest first, after exactly ceil(k/50)
\* fetches, each continuing from the end token of the page before.
C11_RecoveryCeilFetches ==
    /\ ContinuesFromEnd
    /\ pc = "rewound" =>
         /\ bf.evts = NewerEvents
         /\ bf.fetches = (Depth + PAGE_LIMIT - 1) \div PAGE_LIMIT

\* C11, amended: with the last known event id at depth k, recovery returns
\* the k newer events, each once, oldest first, after exactly
\* floor(k/50) + 1 fetches of at most 50 events, each continuing from the
\* end token of the page before.
C11_RecoveryFetches ==
    /\ ContinuesFromEnd
    /\ pc = "rewound" =>
         /\ bf.evts = NewerEvents
         /\ bf.fetches = (Depth \div PAGE_LIMIT) + 1
         /\ Len(bf.page.chunk) <= PAGE_LIMIT

\* the last known id was found on the third page
C11_Witness == pc = "rewound" /\ Depth = 2 * PAGE_LIMIT /\ bf.fetches = 3

----------------------------------------------------------------------------
(* Claims about passes with truncated timelines, checked under Spec.       *)

\* the semantic events of the run so far: those sent and those collected in
\* the pass in progress
Emitted == sent \o events

\* C12: over any sequence of passes in which truncated batches start a
\* backfill that finds the last known id, no raw event is replayed twice
\* and no raw event gives rise to more than one semantic event.
C12_NoDoubleReplay ==
    /\ \A i \in 1..Len(cached_events) : \A j \in 1..Len(cached_events) :
         i # j => cached_events[i].event_id # cached_events[j].event_id
    /\ \A i \in 1..Len(Emitted) : \A j \in 1..Len(Emitted) :
         (i # j /\ Emitted[i].src # 0) => Emitted[i].src # Emitted[j].src

\* the room state, the registry, the cache and the cursor
ClientState == <<robjs, dicts, rooms, cached_events, next_batch>>

\* C17: a long-poll that fails with a transport error does not end the
\* sync loop: the iteration changes neither room state nor the cursor and
\* the loop is at its next poll.
C17_TransportErrorRetried ==
    [][polled'.outcome = "error" =>
         /\ pc' = "poll"
         /\ ClientState' = ClientState]_vars

\* C18: a long-poll that times out changes no room state, registry entry,
\* cache entry or cursor and emits no event; the loop is at its next poll,
\* which reads the same cursor, however many polls timed out before.
C18_TimeoutSkipsPass ==
    [][polled'.timeouts > polled.timeouts =>
         /\ pc = "poll" /\ pc' = "poll"
         /\ ClientState' = ClientState
         /\ <<events, sent>>' = <<events, sent>>]_vars

\* the most timeouts in a row the model explores, between two passes that
\* moved the cursor
C18_Witness ==
    /\ polled.timeouts = MaxTimeouts
    /\ pc = "poll"
    /\ next_batch > 0
    /\ sent # <<>>

----------------------------------------------------------------------------
(* The event bus: EventBus._run_loop starting handler invocations through  *)
(* a LimitingNursery. The registries are filled before the loop runs (the  *)
(* decorators RoboClient.event and RoboClient.all_events).                 *)

\* open_event_bus(max_events=64)
DEFAULT_MAX_EVENTS == 64

\* the events a sender can put on the channel; room is the Room object
\* the event carries, 0 for none
BusEvents == [type : EventTypes, insignificant : BOOLEAN, room : {0}]

\* the registrations explored: one wildcard handler and two handlers of one
\* type, or one handler per type and no wildcard handler
Registries ==
    { [any   |-> <<"on_any">>,
       typed |-> [t \in EventTypes |-> IF t = "MessageReceived"
                                       THEN <<"on_message", "on_message_too">>
                                       ELSE <<>>]],
      [any   |-> <<>>,
       typed |-> [t \in EventTypes |-> IF t = "MessageReceived"
                                       THEN <<"on_message">>
                                       ELSE <<"on_reply">>]] }

BusInit ==
    /\ robjs = EmptyFn
    /\ dicts = EmptyFn
    /\ rooms = EmptyFn
    /\ applied = [x \in SyncRooms |-> <<>>]
    /\ snaps = <<>>
    /\ PassIdle("poll", TRUE)
    /\ \E reg \in Registries :
         /\ any_event_handlers = reg.any
         /\ event_handlers = reg.typed
    /\ loop = "receive"
    /\ received = <<>>
    /\ starting = <<>>
    /\ borrowed = 0
    /\ running = {}
    /\ invoked = <<>>
    /\ raised = NoFailure

\* LimitingNursery.available_tasks
available_tasks == MaxTasks - borrowed

\* the mutant of Matching with the two for loops in the other order
MatchingTypedFirst(e) ==
    (IF e.type \in DOMAIN event_handlers THEN event_handlers[e.type] ELSE <<>>)
        \o any_event_handlers

\* the mutant of Matching that looks handlers up as isinstance would: a
\* MessageReplyEvent is a MessageEvent too
MatchingSubclass(e) ==
    any_event_handlers
        \o (IF e.type \in DOMAIN event_handlers THEN event_handlers[e.type] ELSE <<>>)
        \o (IF e.type = "MessageReply" THEN event_handlers["MessageReceived"] ELSE <<>>)

\* the two for loops of _run_loop: the wildcard handlers, then the handlers
\* registered for the type of the event
Matching(e) ==
    any_event_handlers
        \o (IF e.type \in DOMAIN event_handlers THEN event_handlers[e.type] ELSE <<>>)

\* the mutant of Sheds that sheds nothing
ShedsNothing(e) == FALSE

\* the mutant of Sheds that sheds significant events too
ShedsAny(e) == available_tasks <= 0

\* "if event.insignificant and self._nursery.available_tasks <= 0: continue"
Sheds(e) == e.insignificant /\ available_tasks <= 0

\* the mutant of CanAcquire: a limiter that always lends
CanAcquireAlways == TRUE

\* "async with self._limiter" goes on when a token is left
CanAcquire == borrowed < MaxTasks

\* "event = await self._read.receive()" returns e; the loop drops it or
\* goes on to start its handlers. full records that no token was left
Dispatch(e) ==
    /\ loop = "receive"
    /\ received' = Append(received, [type |-> e.type, insignificant |-> e.insignificant,
                                     room |-> e.room, full |-> available_tasks <= 0])
    /\ IF Sheds(e) \/ Matching(e) = <<>>
         THEN UNCHANGED <<loop, starting>>
         ELSE /\ loop' = "start"
              /\ starting' = Matching(e)
    /\ UNCHANGED <<any_event_handlers, event_handlers, borrowed, running, invoked, raised>>

\* the loop receives what some sender puts on the channel, K events at most
ReceiveUpTo(K) ==
    /\ Len(received) < K
    /\ \E e \in BusEvents : Dispatch(e)
    /\ UNCHANGED <<heapVars, storeVars, passVars>>

\* the mutant of StartHandler that tests the limiter for every handler: the
\* handler of an insignificant event is skipped when no token is left
StartHandlerOrSkip ==
    /\ loop = "start"
    /\ starting' = Tail(starting)
    /\ loop' = IF Tail(starting) = <<>> THEN "receive" ELSE "start"
    /\ IF received[Len(received)].insignificant /\ ~CanAcquire
       THEN UNCHANGED <<running, invoked, borrowed>>
       ELSE /\ CanAcquire
            /\ \E inv \in {[event |-> Len(received), handler |-> Head(starting)]} :
                 /\ running' = running \cup {inv}
                 /\ invoked' = Append(invoked, inv)
            /\ borrowed' = borrowed + 1
    /\ UNCHANGED <<heapVars, storeVars, passVars, any_event_handlers, event_handlers,
                   received, raised>>

\* "await self._nursery.start(p)" returns: the task of inner has taken a
\* token of the limiter and called task_status.started(), the handler runs
StartHandler ==
    /\ loop = "start"
    /\ CanAcquire
    /\ \E inv \in {[event |-> Len(received), handler |-> Head(starting)]} :
         /\ running' = running \cup {inv}
         /\ invoked' = Append(invoked, inv)
    /\ borrowed' = borrowed + 1
    /\ starting' = Tail(starting)
    /\ loop' = IF Tail(starting) = <<>> THEN "receive" ELSE "start"
    /\ UNCHANGED <<heapVars, storeVars, passVars, any_event_handlers, event_handlers,
                   received, raised>>

\* the mutant of Finish without the try of _run_event_safely: the exception
\* leaves the task, the nursery cancels the others and the loop ends
FinishUncaught(inv, raises) ==
    /\ inv \in running
    /\ borrowed' = IF raises THEN 0 ELSE borrowed - 1
    /\ running' = IF raises THEN {} ELSE running \ {inv}
    /\ raised' = IF raises
                 THEN [event |-> inv.event, handler |-> inv.handler, at |-> Len(invoked)]
                 ELSE raised
    /\ loop' = IF raises THEN "ended" ELSE loop
    /\ starting' = IF raises THEN <<>> ELSE starting
    /\ UNCHANGED <<heapVars, storeVars, passVars, any_event_handlers, event_handlers,
                   received, invoked>>

\* the handler of an invocation returns or raises: _run_event_safely logs
\* the exception, and leaving "async with self._limiter" gives the token back
Finish(inv, raises) ==
    /\ inv \in running
    /\ borrowed' = borrowed - 1
    /\ running' = running \ {inv}
    /\ raised' = IF raises
                 THEN [event |-> inv.event, handler |-> inv.handler, at |-> Len(invoked)]
                 ELSE raised
    /\ UNCHANGED <<heapVars, storeVars, passVars, any_event_handlers, event_handlers,
                   loop, received, starting, invoked>>

HandlerEnds == \E inv \in running : \E raises \in BOOLEAN : Finish(inv, raises)

Receive == ReceiveUpTo(MaxBusEvents)

BusNext == Receive \/ StartHandler \/ HandlerEnds

SpecBus == BusInit /\ [][BusNext]_vars

LiveReceive == ReceiveUpTo(MaxLiveEvents)

LiveNext == LiveReceive \/ StartHandler \/ HandlerEnds

\* the loop runs whenever it can, and every handler invocation ends
SpecBusLive ==
    BusInit /\ [][LiveNext]_vars /\ WF_vars(StartHandler) /\ WF_vars(HandlerEnds)

----------------------------------------------------------------------------
(* Claims about the event bus.                                             *)

\* the number of invocations of handler h started for the i-th event
Invocations(i, h) ==
    Cardinality({k \in 1..Len(invoked) : invoked[k] = [event |-> i, handler |-> h]})

\* the loop is past the i-th event
Past(i) == i < Len(received) \/ (i = Len(received) /\ loop = "receive")

\* the i-th event was insignificant and no token was left when it came
Shed(i) == received[i].insignificant /\ received[i].full

\* C13: an insignificant event received while the limiter has no free
\* slot gets no handler invocation, ever, and the loop does not wait for a
\* slot: it is back at the receive.
C13_SaturatedShedsInsignificant ==
    \A i \in 1..Len(received) :
        Shed(i) => /\ \A k \in 1..Len(invoked) : invoked[k].event # i
                   /\ Past(i)

C13_Witness ==
    \E i \in 1..Len(received) :
        /\ Shed(i)
        /\ Matching(received[i]) # <<>>
        /\ i < Len(received)
        /\ \E k \in 1..Len(invoked) : invoked[k].event > i

\* every handler matching the i-th event has been invoked for it once
AllInvoked(i) ==
    \A k \in 1..Len(Matching(received[i])) : Invocations(i, Matching(received[i])[k]) = 1

\* no handler is invoked twice for one event, and the loop does not leave
\* an event it has not shed before all its handlers are started
NotDroppedSoFar ==
    /\ \A k \in 1..Len(invoked) : \A l \in 1..Len(invoked) :
         invoked[k] = invoked[l] => k = l
    /\ \A i \in 1..Len(received) :
         (~received[i].insignificant /\ Past(i)) => AllInvoked(i)

\* C14: a significant event is never dropped; when no slot is free the
\* loop waits, and as the running invocations end, every handler matching
\* the event is eventually invoked for it, exactly once.
C14_SignificantNeverDropped ==
    /\ []NotDroppedSoFar
    /\ \A i \in 1..MaxLiveEvents :
         (Len(received) >= i /\ ~received[i].insignificant)
            ~> (Len(received) >= i /\ AllInvoked(i) /\ Past(i))

\* a significant event that came when no slot was free, and whose loop
\* had to wait again for its second handler, has all its handlers invoked
C14_Witness ==
    \E i \in 1..Len(received) :
        /\ ~received[i].insignificant
        /\ received[i].full
        /\ Len(Matching(received[i])) >= 2
        /\ AllInvoked(i)
        /\ Past(i)

\* C15: the invocations in progress are never more than the capacity of
\* the limiter, and each holds exactly one token: the token is taken before
\* the handler starts and given back when it ends, normally or by raising.
C15_BoundedInvocations ==
    /\ Cardinality(running) <= MaxTasks
    /\ borrowed = Cardinality(running)
    /\ \A inv \in running : \E k \in 1..Len(invoked) : invoked[k] = inv

\* every slot is taken, the loop waits to start one more handler, and a
\* slot was given back before by a handler that raised
C15_Witness ==
    /\ Cardinality(running) = MaxTasks
    /\ loop = "start"
    /\ raised # NoFailure
    /\ Len(invoked) > MaxTasks

\* the i-th event was not shed on receipt
Accepted(i) == ~Shed(i)

\* a step in which a handler raises ends that invocation and nothing else
Contained ==
    raised' # raised =>
        /\ <<loop, starting, received, invoked>>' = <<loop, starting, received, invoked>>
        /\ [event |-> raised'.event, handler |-> raised'.handler] \in running
        /\ running' = running \ {[event |-> raised'.event, handler |-> raised'.handler]}
        /\ borrowed' = borrowed - 1

\* C16: a handler that raises ends its own invocation only: the loop keeps
\* running, and the handlers of the same event and of later events are
\* still invoked.
C16_FailureContained ==
    /\ [](loop \in {"receive", "start"})
    /\ [][Contained]_vars
    /\ \A i \in 1..MaxLiveEvents :
         (raised # NoFailure /\ Len(received) >= i /\ Accepted(i))
            ~> (Len(received) >= i /\ AllInvoked(i) /\ Past(i))

\* after a handler raised, another handler of the same event and a handler
\* of a later event were started
C16_Witness ==
    /\ raised # NoFailure
    /\ \E k \in (raised.at + 1)..Len(invoked) : invoked[k].event = raised.event
    /\ \E k \in (raised.at + 1)..Len(invoked) : invoked[k].event > raised.event

----------------------------------------------------------------------------
(* Claims about the room objects the application gets.                     *)

\* C20: the room carried by a semantic event given to the event channel
\* is a snapshot: no later step of the client changes what it shows.
C20_SentRoomsNeverChange ==
    [][\A i \in 1..Len(sent) :
         View(Heap, sent[i].room) = View([robjs |-> robjs', dicts |-> dicts'], sent[i].room)]_vars

\* a RoomJoinedByMe event was sent and its room is the live Room object of
\* the registry
C20_Witness ==
    \E i \in 1..Len(sent) :
        /\ sent[i].tag = "RoomJoinedByMe"
        /\ sent[i].room \in LiveRefs

----------------------------------------------------------------------------
(* The client: RoboClient.run, the initial pass and then the sync loop and *)
(* the dispatch loop side by side, the handlers reading the rooms of their *)
(* events.                                                                 *)

ClientRooms == {"r1"}

ClientInit ==
    /\ robjs = EmptyFn
    /\ dicts = EmptyFn
    /\ rooms = EmptyFn
    /\ applied = [x \in SyncRooms |-> <<>>]
    /\ snaps = <<>>
    /\ PassIdle("poll", FALSE)
    /\ any_event_handlers = <<"on_any">>
    /\ event_handlers = [t \in EventTypes |-> IF t = "MessageReceived"
                                              THEN <<"on_message">> ELSE <<>>]
    /\ loop = "receive"
    /\ received = <<>>
    /\ starting = <<>>
    /\ borrowed = 0
    /\ running = {}
    /\ invoked = <<>>
    /\ raised = NoFailure

ClientSyncStart == SyncStart(ClientRooms, {FALSE}, StateShapes, Shapes, MaxClientEvents)

\* the mutant of ClientSend on a channel with a buffer: the send ends at
\* once, whatever the dispatch loop is doing
ClientSendBuffered == synced /\ Send

\* "await self.event_channel.send(evt)" on a channel without buffer: the
\* send ends when _run_loop receives the event.  The event classes all set
\* insignificant = False
ClientSend ==
    /\ pc = "send"
    /\ synced
    /\ sent' = Append(sent, Head(events))
    /\ events' = Tail(events)
    /\ pc' = IF Tail(events) = <<>> THEN "poll" ELSE "send"
    /\ Dispatch([type |-> Head(events).tag, insignificant |-> FALSE,
                 room |-> Head(events).room])
    /\ UNCHANGED <<req, reply_calls, polled, heapVars, storeVars, synced, batch, ri, next_batch, cached_events,
                   bf, ctr, last_call, last_pass>>

\* the mutant of HandlerReads: a handler that applies an event to its room
HandlerApplies(H, room) ==
    UpdateState(H, room, [type |-> M_NAME, state_key |-> EmptyKey,
                          sender |-> IdentifierParse(UserKey("a")), membership |-> None,
                          reply |-> NoReply, event_id |-> MaxClientEvents + 1])

\* what a handler does with the room of its event: it reads it, find_event
\* for every (type, key)
HandlerReads(H, room) == FindAll(H, room, Slots)

\* a handler reads the room of its event and returns or raises
ClientHandlerEnds ==
    \E inv \in running : \E raises \in BOOLEAN :
        /\ borrowed' = borrowed - 1
        /\ running' = running \ {inv}
        /\ raised' = IF raises
                     THEN [event |-> inv.event, handler |-> inv.handler, at |-> Len(invoked)]
                     ELSE raised
        /\ \E H1 \in {HandlerReads(Heap, received[inv.event].room)} :
             /\ robjs' = H1.robjs
             /\ dicts' = H1.dicts
        /\ UNCHANGED <<rooms, storeVars, passVars, any_event_handlers, event_handlers,
                       loop, received, starting, invoked>>

ClientNext ==
    \/ ClientSyncStart
    \/ ProcessRoom
    \/ PassEnd
    \/ ClientSend
    \/ StartHandler
    \/ ClientHandlerEnds

SpecClient == ClientInit /\ [][ClientNext]_vars

\* what the live rooms of the registry show, and their last known event ids
LiveStores ==
    [rid \in DOMAIN rooms |-> <<View(Heap, rooms[rid]), robjs[rooms[rid]].last>>]

\* a pass is in progress: sync() has started and has not returned
PassInProgress == pc \in {"room", "backfill", "send"}

\* C19: one pass at a time, and one writer.  A long-poll is in flight only
\* when no pass is in progress, the loops run only after the initial pass,
\* and what the live rooms hold changes only in a replay step of the pass,
\* never in a step of the dispatch loop or of a handler.
C19_SingleWriter ==
    /\ [](pc = "poll" => (batch = NoBatch /\ events = <<>> /\ bf = NoBackfill))
    /\ [](~synced => (received = <<>> /\ running = {} /\ sent = <<>>))
    /\ [][LiveStores' # LiveStores =>
            /\ pc = "room"
            /\ busVars' = busVars]_vars

\* a pass has replayed a state event on the live room while a handler still
\* runs on an event of the pass before, which carries that very Room object
C19_Witness ==
    /\ pc = "room"
    /\ ri > 1
    /\ last_pass.emitted # <<>>
    /\ \A i \in 1..Len(last_pass.rooms) : last_pass.rooms[i].events = <<>>
    /\ \E i \in 1..Len(cached_events) : HasStateKey(cached_events[i])
    /\ \E inv \in running : received[inv.event].room \in LiveRefs

----------------------------------------------------------------------------
(* Claims about the replay of one room's events, checked under SpecPass.   *)

\* the raw events replayed up to and including the one with this id
ReplayedUpTo(id) == SubSeq(cached_events, 1, Pos(id))

\* C21: the semantic event produced by replaying raw event e carries the
\* snapshot taken right after e was applied: it shows e and the events
\* replayed before e, and none of the events replayed after it.
C21_CarriesStateAfterEvent ==
    \A i \in 1..Len(Emitted) :
        Emitted[i].src # 0 =>
            View(Heap, Emitted[i].room) = StateOf(ReplayedUpTo(Emitted[i].src))

\* a sent event of a member's join whose batch went on with that member's
\* leave: the live room has lost the entry, the event's room still shows it
C21_Witness ==
    \E i \in 1..Len(sent) :
        /\ sent[i].tag = "MemberJoined"
        /\ Pos(sent[i].src) < Len(cached_events)
        /\ cached_events[Pos(sent[i].src) + 1] \in
              {[MemberShape("b", "b", LEAVE) EXCEPT !.event_id = sent[i].src + 1]}
        /\ \E k \in 1..Len(last_pass.rooms) :
             /\ \E a \in 1..Len(last_pass.rooms[k].events) :
                  last_pass.rooms[k].events[a].event_id = sent[i].src
             /\ \E a \in 1..Len(last_pass.rooms[k].events) :
                  last_pass.rooms[k].events[a].event_id = sent[i].src + 1
        /\ View(Heap, sent[i].room) # View(Heap, rooms[RoomOf(sent[i])])

\* the step registers the room of the batch entry being processed
Registers == pc = "room" /\ ri <= Len(batch.joined) /\ RoomData.room_id \notin DOMAIN rooms

\* C22: in a non-initial pass, the step that registers an unknown room
\* emits one semantic event for it, RoomJoinedByMe, whatever events its
\* batch entry holds, and applies those events to the new room.
C22_NewRoomOnlyJoinedByMe ==
    [][(Registers /\ synced) =>
          /\ RoomData.room_id \in DOMAIN rooms'
          /\ Len(events') = Len(events) + 1
          /\ SubSeq(events', 1, Len(events)) = events
          /\ events'[Len(events')].tag = "RoomJoinedByMe"
          /\ robjs'[events'[Len(events')].room].id = RoomData.room_id
          /\ View([robjs |-> robjs', dicts |-> dicts'], rooms'[RoomData.room_id])
               = StateOf(RoomData.state \o RoomData.timeline)]_vars

\* a non-initial pass registered the room from a batch with a member join
\* and a message, and RoomJoinedByMe is all that was sent
C22_Witness ==
    /\ PassOver /\ ~last_pass.initial /\ pc = "poll"
    /\ Len(sent) = 1
    /\ sent[1].tag = "RoomJoinedByMe"
    /\ Len(last_pass.rooms) = 1
    /\ \E a \in 1..Len(last_pass.rooms[1].events) :
         last_pass.rooms[1].events[a].type = M_MEMBER
    /\ \E a \in 1..Len(last_pass.rooms[1].events) :
         last_pass.rooms[1].events[a].type = M_MESSAGE
    /\ Len(cached_events) = Len(last_pass.rooms[1].events)


----------------------------------------------------------------------------
(* Replies: messages whose relation names another event, and what          *)
(* application code gets when it asks an emitted MessageReplyEvent for the *)
(* message replied to.                                                     *)

\* an event id no event of the run carries
AbsentId == MaxReplyEvents + 1

\* a message whose content.relates_to.replying_to is id
ReplyShape(id) == [MessageShape EXCEPT !.reply = id]

ReplyRooms == {"r1"}
ReplyStateShapes == {CreateShape, MemberShape("b", "b", JOIN)}
ReplyShapes == ReplyStateShapes \cup {MessageShape, ReplyShape(1), ReplyShape(AbsentId)}

ReplySyncStart ==
    SyncStart(ReplyRooms, {FALSE}, ReplyStateShapes, ReplyShapes, MaxReplyEvents)

\* the id the raw event of a semantic event replies to
ReplyingTo(ev) == cached_events[Pos(ev.src)].reply

\* Application code awaits replied_to_message() on a MessageReplyEvent it
\* was handed.  The first statement reads self.room._client; Room objects
\* have the attribute client and no _client, so the call raises
\* AttributeError before the scan of cached_events and before the fetch
RepliedToMessage ==
    /\ Len(reply_calls) < MaxReplyCalls
    /\ \E i \in 1..Len(sent) :
         /\ sent[i].tag = "MessageReply"
         /\ reply_calls' = Append(reply_calls,
                                  [event   |-> i,
                                   target  |-> ReplyingTo(sent[i]),
                                   raised  |-> "AttributeError",
                                   fetches |-> 0])
    /\ UNCHANGED <<busVars, heapVars, storeVars, pc, synced, batch, ri, events, sent,
                   next_batch, cached_events, bf, ctr, last_call, last_pass, polled, req>>

ReplyNext ==
    \/ ReplySyncStart
    \/ ProcessRoom
    \/ PassEnd
    \/ Send
    \/ RepliedToMessage

SpecReply == Init /\ [][ReplyNext]_vars

\* the event with this id was in cached_events when the handler of the raw
\* event src ran: the loop appends an event before it calls its handler
CachedWhenHandled(id, src) ==
    \E k \in 1..Pos(src) : cached_events[k].event_id = id

\* the fetch-by-id calls made for the semantic event made from raw event src
RECURSIVE FetchesIn(_, _)
FetchesIn(calls, src) ==
    IF calls = <<>> THEN 0
    ELSE (IF sent[Head(calls).event].src = src THEN Head(calls).fetches ELSE 0)
         + FetchesIn(Tail(calls), src)

\* C23: for every MessageReply made from a message that names a replied-to
\* event, no fetch is made when that event was in the cache, and exactly
\* one fetch has been made by the time the MessageReply is emitted when it
\* was not.
C23_ReplyResolvedBeforeEmission ==
    \A i \in 1..Len(Emitted) :
        Emitted[i].tag = "MessageReply" =>
            FetchesIn(reply_calls, Emitted[i].src)
                = IF CachedWhenHandled(ReplyingTo(Emitted[i]), Emitted[i].src) THEN 0 ELSE 1

\* a MessageReply whose replied-to event is not in the cache has been sent,
\* and the application has asked it for the message replied to
C23_Witness ==
    \E k \in 1..Len(reply_calls) :
        /\ ~IsCached(reply_calls[k].target)
        /\ reply_calls[k].raised = "AttributeError"


\* handler h is registered for all events
IsAnyHandler(h) == \E j \in 1..Len(any_event_handlers) : any_event_handlers[j] = h

\* C24: no invocation of a handler registered for all events is ever
\* started for an insignificant event, whether the limiter has free slots
\* or not.
C24_InsignificantNotToAnyHandlers ==
    \A k \in 1..Len(invoked) :
        received[invoked[k].event].insignificant => ~IsAnyHandler(invoked[k].handler)

\* an insignificant event came while a slot was free and a handler
\* registered for all events was started for it
C24_Witness ==
    \E k \in 1..Len(invoked) :
        /\ received[invoked[k].event].insignificant
        /\ ~received[invoked[k].event].full
        /\ IsAnyHandler(invoked[k].handler)


----------------------------------------------------------------------------
(* The cache of raw events when it is full.                                *)

CacheRooms == {"r1"}
CacheStateShapes == {CreateShape, MemberShape("b", "b", JOIN)}
CacheShapes == CacheStateShapes \cup {MessageShape}

\* The client after an initial pass that brought room r1 with a timeline of
\* n messages and no state: the room is registered and empty, the cache
\* holds the n messages, and n is the capacity of the cache or one less
CacheInit ==
    \E n \in {CACHE_MAXLEN - 1, CACHE_MAXLEN} :
      \E r \in {NewRoom(EmptyHeap, "r1")} :
        /\ robjs = r.H.robjs
        /\ dicts = r.H.dicts
        /\ rooms = Put(EmptyFn, "r1", r.ref)
        /\ applied = [x \in SyncRooms |-> <<>>]
        /\ snaps = <<>>
        /\ pc = "poll"
        /\ synced = TRUE
        /\ batch = NoBatch
        /\ ri = 0
        /\ events = <<>>
        /\ sent = <<>>
        /\ next_batch = n
        /\ cached_events = [i \in 1..n |-> HistoryEvent(i)]
        /\ bf = NoBackfill
        /\ ctr = n
        /\ last_call = NoCall
        /\ last_pass = NoPass
        /\ polled = NoPoll
        /\ reply_calls = <<>>
        /\ req = NoRequest
        /\ BusIdle

CacheSyncStart ==
    SyncStart(CacheRooms, {FALSE}, CacheStateShapes, CacheShapes,
              CACHE_MAXLEN + MaxCacheEvents)

CacheNext ==
    \/ CacheSyncStart
    \/ ProcessRoom
    \/ PassEnd
    \/ Send

SpecCache == CacheInit /\ [][CacheNext]_vars

\* the last n elements of s, all of s when it has no more
LastN(s, n) == IF Len(s) <= n THEN s ELSE SubSeq(s, Len(s) - n + 1, Len(s))

\* C25: the cache never holds more than CACHE_MAXLEN events; the replay of
\* a room appends every raw event it replays (all of them, unless a handler
\* raises) in replay order and the oldest entries go when the cache is full,
\* so that the cache holds the most recent replayed events, CACHE_MAXLEN at
\* most; no other step changes the cache.
C25_CacheHoldsMostRecent ==
    /\ [](Len(cached_events) <= CACHE_MAXLEN)
    /\ [][IF pc = "room" /\ ri <= Len(batch.joined)
          THEN \E k \in 0..SizeOf(RoomData) :
                 /\ cached_events'
                      = LastN(cached_events
                                 \o SubSeq(RoomData.state \o RoomData.timeline, 1, k),
                              CACHE_MAXLEN)
                 /\ pc' # "crashed" => k = SizeOf(RoomData)
          ELSE cached_events' = cached_events]_vars

\* a pass replayed events on a full cache: the oldest entries are gone and
\* the newest event of the pass is the last entry
C25_Witness ==
    /\ PassOver
    /\ Len(cached_events) = CACHE_MAXLEN
    /\ cached_events[1].event_id > 1
    /\ cached_events[CACHE_MAXLEN].event_id = ctr
    /\ ctr > CACHE_MAXLEN


----------------------------------------------------------------------------
(* Claims about gap recovery.                                              *)

\* the pass is at a room that was registered before the pass, whose
\* timeline the batch marks as limited, and the initial pass has ended
GapCase ==
    /\ RoomData.room_id \in DOMAIN rooms
    /\ RoomData.limited
    /\ synced

\* C26: the pass turns to _backfill_events for a room exactly when the
\* room was registered before the pass, the batch marks its timeline as
\* limited and the pass is not the initial one; get_events is only called
\* from there, for that room and with its last known event id.
C26_BackfillIffKnownLimitedNotInitial ==
    /\ [](pc = "backfill" =>
            /\ ri <= Len(batch.joined)
            /\ GapCase
            /\ bf.last = robjs[rooms[RoomData.room_id]].last)
    /\ [][(pc = "room" /\ ri <= Len(batch.joined)) => (pc' = "backfill" <=> GapCase)]_vars
    /\ [][pc \notin {"room", "backfill"} => pc' # "backfill"]_vars

\* get_events has been called once for a known room with a limited timeline
C26_Witness ==
    /\ pc = "backfill"
    /\ bf.fetches >= 1
    /\ GapCase


----------------------------------------------------------------------------
(* Claims about the replay sequence of a room.                             *)

\* the step ends _process_joined_room for the room the pass is at: the
\* replay loop has run
ReplaysRoom ==
    /\ pc \in {"room", "backfill"}
    /\ ri <= Len(batch.joined)
    /\ pc' # "backfill"

\* what the step appended to the cache
NewlyCached == SubSeq(cached_events', Len(cached_events) + 1, Len(cached_events'))

\* the state events of a sequence of raw events, in its order
StateEventsOf(seq) == SelectSeq(seq, HasStateKey)

\* seq ends with tail
EndsWith(seq, tail) ==
    /\ Len(tail) <= Len(seq)
    /\ SubSeq(seq, Len(seq) - Len(tail) + 1, Len(seq)) = tail

\* C27: the replay loop of a room in one pass goes through the events the
\* backfill returned (none when there was no backfill), then the state
\* events of the batch, then its timeline events, each in the order given;
\* every event of that sequence is replayed once, in that order, and the
\* state events among them are applied to the room once each, in that order.
C27_ReplaySequence ==
    [][ReplaysRoom =>
          LET me  == RoomData.state \o RoomData.timeline
              rid == RoomData.room_id
          IN  /\ EndsWith(NewlyCached, me)
              /\ pc = "room" => NewlyCached = me
              /\ pc = "backfill" =>
                   EndsWith(SubSeq(NewlyCached, 1, Len(NewlyCached) - Len(me)), bf.evts)
              /\ applied'[rid] = applied[rid] \o StateEventsOf(NewlyCached)
              /\ View([robjs |-> robjs', dicts |-> dicts'], rooms'[rid])
                   = StateOf(applied'[rid])]_vars

\* the replay loop of a room stopped before the last event of the batch
C27_Witness ==
    /\ pc = "crashed"
    /\ ri \in 1..Len(batch.joined)
    /\ RoomData.timeline # <<>>
    /\ \A i \in 1..Len(cached_events) :
         cached_events[i].event_id # RoomData.timeline[Len(RoomData.timeline)].event_id


OneMessage ==
    /\ pc = "room"
    /\ ri <= Len(batch.joined)
    /\ RoomData.room_id \in DOMAIN rooms
    /\ RoomData.state = <<>>
    /\ Len(RoomData.timeline) = 1
    /\ RoomData.timeline[1].type = M_MESSAGE

\* the class of the event a message gives rise to
MessageTag(m) == IF m.reply # NoReply THEN "MessageReply" ELSE "MessageReceived"

\* C29: replaying a message for a known room yields one event, MessageReply
\* when the message names a replied-to event and MessageReceived otherwise;
\* the room's state mapping and last known event id stay as they were, and
\* the snapshot the event carries, taken after the message, shows the state
\* from before the message.
C29_MessageLeavesState ==
    /\ [](\A i \in 1..Len(Emitted) :
            Emitted[i].tag \in {"MessageReply", "MessageReceived"} =>
                /\ cached_events[Pos(Emitted[i].src)].type = M_MESSAGE
                /\ Emitted[i].tag = MessageTag(cached_events[Pos(Emitted[i].src)])
                /\ View(Heap, Emitted[i].room)
                     = StateOf(SubSeq(cached_events, 1, Pos(Emitted[i].src) - 1)))
    /\ [][(OneMessage /\ cached_events' # cached_events) =>
            LET m    == RoomData.timeline[1]
                room == rooms[RoomData.room_id]
                H1   == [robjs |-> robjs', dicts |-> dicts']
            IN  /\ Len(events') = Len(events) + 1
                /\ SubSeq(events', 1, Len(events)) = events
                /\ events'[Len(events')].tag = MessageTag(m)
                /\ events'[Len(events')].src = m.event_id
                /\ View(H1, events'[Len(events')].room) = View(Heap, room)
                /\ View(H1, room) = View(Heap, room)
                /\ robjs'[room].last = robjs[room].last]_vars

\* a reply and a plain message have been replayed on a room that has state
C29_Witness ==
    /\ PassOver
    /\ \E i \in 1..Len(sent) : \E j \in 1..Len(sent) :
         /\ sent[i].tag = "MessageReply"
         /\ sent[j].tag = "MessageReceived"
         /\ \E s \in Slots : View(Heap, sent[i].room)[s] # NoEvent


\* C30: when a pass has ended, the last known event id of every room the
\* batch brought events for is the id of the last event replayed for that
\* room, state event or message.
C30_LastKnownIsLastReplayed ==
    PassOver =>
        \A i \in 1..Len(last_pass.rooms) :
            last_pass.rooms[i].events # <<>> =>
                robjs[rooms[last_pass.rooms[i].room_id]].last
                    = last_pass.rooms[i].events[Len(last_pass.rooms[i].events)].event_id

\* a pass ended whose last event for a room was a message: the room's last
\* known event id is not the id of that message
C30_Witness ==
    /\ PassOver
    /\ \E i \in 1..Len(last_pass.rooms) :
         LET evs == last_pass.rooms[i].events
         IN  /\ evs # <<>>
             /\ evs[Len(evs)].type = M_MESSAGE
             /\ robjs[rooms[last_pass.rooms[i].room_id]].last # evs[Len(evs)].event_id


----------------------------------------------------------------------------
(* The transport: MatrixHttp.matrix_request.                               *)

\* "for try_ in range(0, 5)"
MAX_TRIES == 5

\* "await trio.sleep(0.5)" of the rate limit branch, in milliseconds
DEFAULT_RETRY_MS == 500

M_LIMIT_EXCEEDED == "M_LIMIT_EXCEEDED"
M_FORBIDDEN == "M_FORBIDDEN"

\* the responses of the server: status code, content type, and the errcode
\* and retry_after_ms keys of the body (None and 0 when the body has none)
Responses ==
    [status_code    : {100, 200, 204, 302, 403, 404, 429, 500, 503},
     content_type   : {"application/json", "text/html"},
     errcode        : {None, M_LIMIT_EXCEEDED, M_FORBIDDEN},
     retry_after_ms : {0, 1000}]

\* the caller calls matrix_request, with a body or without
RequestStart ==
    /\ req.state = "idle"
    /\ \E body \in {None, "caller"} :
         req' = [NoRequest EXCEPT !.state = "pending", !.json = body]
    /\ UNCHANGED <<heapVars, storeVars, busVars, pc, synced, batch, ri, events, sent,
                   next_batch, cached_events, bf, ctr, last_call, last_pass, polled,
                   reply_calls>>

\* One iteration of the for loop on response resp: the call returns the
\* body, raises, or sleeps and goes on.  "body = resp.json()" assigns the
\* parameter, so the next request is sent with the body of this response.
\* After the last iteration the function ends without a return statement:
\* the call returns None
Handled(r, resp) ==
    LET got    == [r EXCEPT !.resp = resp, !.json = "response"]
        Raise(what) == [got EXCEPT !.state = "raised", !.raised = what]
        Again(ms) ==
            IF r.try_ + 1 < MAX_TRIES
            THEN [got EXCEPT !.try_ = r.try_ + 1, !.slept = r.slept + ms]
            ELSE [got EXCEPT !.try_ = r.try_ + 1, !.slept = r.slept + ms,
                             !.state = "returned", !.value = NoResponse]
    IN  IF resp.content_type # "application/json"
        THEN [r EXCEPT !.resp = resp, !.state = "raised", !.raised = "TypeError"]
        ELSE IF 200 <= resp.status_code /\ resp.status_code < 300
        THEN [got EXCEPT !.state = "returned", !.value = resp]
        ELSE IF resp.status_code = 429 \/ resp.errcode = M_LIMIT_EXCEEDED
        THEN Again(IF resp.retry_after_ms = 0 THEN DEFAULT_RETRY_MS
                   ELSE resp.retry_after_ms)
        ELSE IF 500 <= resp.status_code /\ resp.status_code < 600
        THEN Again((r.try_ + 1) * DEFAULT_RETRY_MS)
        ELSE IF 400 <= resp.status_code /\ resp.status_code < 500
        THEN Raise(IF resp.errcode = None THEN "ValueError" ELSE "MatrixHttpException")
        ELSE Raise("RuntimeError")

\* the server answers the request of the iteration
Respond ==
    /\ req.state = "pending"
    /\ \E resp \in Responses : req' = Handled(req, resp)
    /\ UNCHANGED <<heapVars, storeVars, busVars, pc, synced, batch, ri, events, sent,
                   next_batch, cached_events, bf, ctr, last_call, last_pass, polled,
                   reply_calls>>

RequestNext == RequestStart \/ Respond

SpecRequest == Init /\ [][RequestNext]_vars

\* the response asks for another try: rate limit or server error
Retryable(resp) ==
    \/ resp.status_code = 429
    \/ resp.errcode = M_LIMIT_EXCEEDED
    \/ resp.status_code \in 500..599

\* the call ended in an exception
HardFailure == req.state = "raised"

\* C31: a call of matrix_request makes at most five requests; it returns
\* only the parsed body of a 2xx response, on the first such response; a
\* response that is neither 2xx nor a rate limit nor 5xx ends it in an
\* exception at once; a rate limit or 5xx response is followed by a pause
\* and another request, and the call whose five responses were all of that
\* kind ends in an exception, not in an empty result.
C31_BodyOrHardFailure ==
    /\ req.try_ <= MAX_TRIES
    /\ req.state = "returned" =>
         /\ req.value = req.resp
         /\ req.resp.status_code \in 200..299
    /\ (req.state = "pending" /\ req.try_ > 0) =>
         /\ Retryable(req.resp)
         /\ req.slept > 0
         /\ req.try_ < MAX_TRIES
    /\ (req.state \in {"returned", "raised"} /\ ~(req.resp.status_code \in 200..299)) =>
         HardFailure

\* five responses in a row were rate limits or server errors: the call has
\* returned None
C31_Witness ==
    /\ req.state = "returned"
    /\ req.try_ = MAX_TRIES
    /\ req.value = NoResponse
    /\ Retryable(req.resp)


----------------------------------------------------------------------------
(* The order of the starts: the dispatch loop on a short run of events.    *)

OrderReceive == ReceiveUpTo(MaxOrderEvents)

OrderNext == OrderReceive \/ StartHandler \/ HandlerEnds

SpecBusOrder == BusInit /\ [][OrderNext]_vars

\* no handler has been invoked for the i-th event
NoneInvoked(i) == \A k \in 1..Len(invoked) : invoked[k].event # i

\* the handlers the loop has still to start for the event it is at
StillToStart(i) ==
    SubSeq(Matching(received[i]),
           Len(Matching(received[i])) - Len(starting) + 1, Len(Matching(received[i])))

WaitsForSlot == loop = "start" /\ ~CanAcquire

\* C33: the loop never waits for a slot on behalf of an insignificant
\* event: an insignificant event with more matching handlers than the
\* limiter can have free slots is shed, no handler is invoked for it, and
\* the loop is never inside a start that waits for a token while the event
\* it is at is insignificant.
C33_NeverWaitsForInsignificant ==
    /\ \A i \in 1..Len(received) :
         (received[i].insignificant /\ Len(Matching(received[i])) > MaxTasks) =>
             (NoneInvoked(i) /\ Past(i))
    /\ WaitsForSlot => ~received[Len(received)].insignificant

\* an insignificant event came while one slot was free: its first handler
\* took the slot and the loop waits for a token to start the next one
C33_Witness ==
    /\ WaitsForSlot
    /\ received[Len(received)].insignificant
    /\ ~received[Len(received)].full
    /\ \E k \in 1..Len(invoked) : invoked[k].event = Len(received)
    /\ starting # <<>>


\* the handlers invoked for the i-th event, in the order of their start
StartedFor(i) ==
    LET OfEvent(inv) == inv.event = i
        invs == SelectSeq(invoked, OfEvent)
    IN  [k \in 1..Len(invs) |-> invs[k].handler]

\* the handlers registered for all events, then those registered for the
\* type of the i-th event, each list in registration order
InRegistrationOrder(i) ==
    any_event_handlers \o event_handlers[received[i].type]

\* C34: handler invocations start in event order.  The invocations are
\* started event after event; those of one event are started in the order
\* wildcard handlers first, typed handlers next, each group in registration
\* order; and when an invocation for an event has started, every handler of
\* every earlier event that was not shed has been started.
C34_StartsInEventOrder ==
    /\ \A k \in 1..Len(invoked) : \A l \in k..Len(invoked) :
         invoked[k].event <= invoked[l].event
    /\ \A i \in 1..Len(received) :
         /\ Len(StartedFor(i)) <= Len(InRegistrationOrder(i))
         /\ StartedFor(i) = SubSeq(InRegistrationOrder(i), 1, Len(StartedFor(i)))
         /\ (\E k \in 1..Len(invoked) : invoked[k].event > i) =>
              (Shed(i) \/ StartedFor(i) = InRegistrationOrder(i))

\* two events in a row had a wildcard handler and then typed handlers
\* started, the second event only after the first
C34_Witness ==
    /\ Len(received) >= 2
    /\ any_event_handlers # <<>>
    /\ Len(event_handlers[received[1].type]) >= 2
    /\ StartedFor(1) = InRegistrationOrder(1)
    /\ StartedFor(2) = InRegistrationOrder(2)
    /\ Len(StartedFor(2)) >= 2
    /\ received[2].full


----------------------------------------------------------------------------
(* The channel between the sync loop and the dispatch loop.                *)

\* the client with more handlers registered for RoomMeJoinedEvent than the
\* limiter has slots at MaxTasks = 2
ChannelInit ==
    /\ robjs = EmptyFn
    /\ dicts = EmptyFn
    /\ rooms = EmptyFn
    /\ applied = [x \in SyncRooms |-> <<>>]
    /\ snaps = <<>>
    /\ PassIdle("poll", FALSE)
    /\ any_event_handlers = <<"on_any">>
    /\ event_handlers = [t \in {"RoomJoinedByMe", "MessageReceived"} |->
                           IF t = "RoomJoinedByMe" THEN <<"on_joined", "on_joined_too">>
                           ELSE <<"on_message">>]
    /\ loop = "receive"
    /\ received = <<>>
    /\ starting = <<>>
    /\ borrowed = 0
    /\ running = {}
    /\ invoked = <<>>
    /\ raised = NoFailure

SpecChannel == ChannelInit /\ [][ClientNext]_vars

\* the i-th event the dispatch loop received is the i-th event sent
Taken(i) ==
    /\ received[i].type = sent[i].tag
    /\ received[i].room = sent[i].room

\* C35: the event channel has no buffer.  Every event whose send has ended
\* has been received by the dispatch loop, in the same order; a send ends
\* only in a step in which the dispatch loop, waiting in receive, takes the
\* event, so that a loop that waits for a slot holds the sender back; only
\* the one event the sender is sending waits to be taken; and the sync loop
\* starts its next long-poll only when every event of the pass was taken.
C35_UnbufferedChannel ==
    /\ [](/\ Len(received) = Len(sent)
          /\ \A i \in 1..Len(sent) : Taken(i))
    /\ [](pc = "poll" => events = <<>>)
    /\ [][sent' # sent =>
            /\ loop = "receive"
            /\ sent' = Append(sent, Head(events))
            /\ events' = Tail(events)
            /\ Len(received') = Len(received) + 1]_vars
    /\ [][(pc = "send" /\ loop # "receive") => <<pc, events, sent>>' = <<pc, events, sent>>]_vars
    /\ [][batch' # batch /\ batch = NoBatch =>
            /\ events = <<>>
            /\ Len(received) = Len(sent)]_vars

\* the sync loop has an event to send while the dispatch loop waits for a
\* slot to start a handler of the event before
C35_Witness ==
    /\ pc = "send"
    /\ events # <<>>
    /\ WaitsForSlot
    /\ Len(sent) >= 1


----------------------------------------------------------------------------
(* Events are sent after the whole batch.                                  *)

\* the last state event of seq for the type and state key of e is e
IsLastFor(seq, e) ==
    \A k \in 1..Len(seq) :
        (seq[k].type = e.type /\ seq[k].state_key = e.state_key)
            => seq[k].event_id <= e.event_id

\* the live Room registered for the room rm of the batch has had every state
\* event of rm applied, and what it stores for a state key of rm is what the
\* last event of rm for that key left there
LiveIncludes(rm) ==
    /\ rm.room_id \in DOMAIN rooms
    /\ EndsWith(applied[rm.room_id], StateEventsOf(rm.events))
    /\ \A k \in 1..Len(rm.events) :
         LET e == rm.events[k]
         IN  (HasStateKey(e) /\ IsLastFor(rm.events, e)) =>
                Get(Heap, rooms[rm.room_id], e.type, e.state_key)
                    = IF IsLeave(e) THEN NoEvent ELSE e

\* the raw event a semantic event was made from has been applied to the
\* live Room of its room
LiveNotOlder(ev) ==
    \/ ev.src = 0
    \/ ~HasStateKey(cached_events[Pos(ev.src)])
    \/ \E k \in 1..Len(applied[RoomOf(ev)]) : applied[RoomOf(ev)][k].event_id = ev.src

\* C36: a semantic event is given to the event queue only after the loop
\* over the rooms of the batch has ended: at every send the pass is in its
\* send loop, the live Room of every room of the batch has had the whole of
\* that room's part of the batch applied, and the live Room of the event's
\* room is not older than the snapshot the event carries.
C36_SentAfterWholeBatch ==
    [][sent' # sent =>
         /\ pc = "send"
         /\ batch = NoBatch
         /\ Len(sent') = Len(sent) + 1
         /\ \A i \in 1..Len(last_pass.rooms) : LiveIncludes(last_pass.rooms[i])
         /\ LiveNotOlder(sent'[Len(sent')])]_vars

\* an event has been sent of a pass whose batch had state events for two
\* rooms
C36_Witness ==
    /\ Len(sent) > last_pass.n
    /\ ~last_pass.initial
    /\ Len(last_pass.rooms) = 2
    /\ \A i \in 1..Len(last_pass.rooms) : StateEventsOf(last_pass.rooms[i].events) # <<>>


----------------------------------------------------------------------------
(* The sync cursor.                                                        *)

\* get_events raises inside _backfill_events (a transport error, an error
\* status): nothing in _backfill_events, _process_joined_room, sync or
\* _sync_loop catches it, the pass ends there
BackfillFailed ==
    /\ pc = "backfill"
    /\ pc' = "crashed"
    /\ UNCHANGED <<req, reply_calls, busVars, polled, heapVars, storeVars, synced, batch, ri, events, sent,
                   next_batch, cached_events, bf, ctr, last_call, last_pass>>

AbortNext == Next \/ BackfillFailed

\* the passes on one room whose timelines may be truncated and whose
\* history fetches may fail
SpecAbort == Init /\ [][AbortNext]_vars

\* the pass has ended with an exception before the batch was applied
Aborted == pc = "crashed" /\ batch # NoBatch

\* C37: the cursor moves to the next token of a batch only when the batch
\* has been applied as a whole: next_batch changes only in the step that
\* ends the loop over the rooms of the batch, and after a pass that an
\* exception ended the cursor does not hold the token of its batch.
C37_CursorMovesWithWholeBatch ==
    /\ [][next_batch' # next_batch =>
            /\ pc = "room"
            /\ ri > Len(batch.joined)
            /\ next_batch' = batch.next_batch]_vars
    /\ [](Aborted /\ TotalSize(batch.joined) > 0 => next_batch # batch.next_batch)

\* a history fetch has failed for a room of a batch with events, and the
\* cursor holds the token of that batch
C37_Witness ==
    /\ Aborted
    /\ bf # NoBackfill
    /\ TotalSize(batch.joined) > 0
    /\ next_batch = batch.next_batch


----------------------------------------------------------------------------
(* Member events of one pass.                                              *)

MaxDiffEvents == 3

\* the invitation, the join and the leave of one user
DiffShapes ==
    {MemberShape("b", "a", INVITE), MemberShape("b", "b", JOIN), MemberShape("b", "b", LEAVE)}

DiffSyncStart == SyncStart(PassRooms, {FALSE}, {}, DiffShapes, MaxDiffEvents)

DiffNext ==
    \/ DiffSyncStart
    \/ ProcessRoom
    \/ PassEnd
    \/ Send

SpecDiff == Init /\ [][DiffNext]_vars

\* the room to which raw event e was applied
RoomOfRaw(e) ==
    CHOOSE rid \in SyncRooms :
        \E k \in 1..Len(applied[rid]) : applied[rid][k].event_id = e.event_id

\* the membership that the replay sequence of e's room gives for e's state
\* key just before e: that of the nearest earlier member event for the key,
\* "none" when that was a leave or when there is no such event
NearestEarlier(e) ==
    LET a       == applied[RoomOfRaw(e)]
        k       == CHOOSE k \in 1..Len(a) : a[k].event_id = e.event_id
        Earlier == {j \in 1..(k - 1) : a[j].type = M_MEMBER /\ a[j].state_key = e.state_key}
        j       == CHOOSE j \in Earlier : \A i \in Earlier : i <= j
    IN  IF Earlier = {} THEN "none"
        ELSE IF a[j].membership = LEAVE THEN "none"
        ELSE a[j].membership

\* the outcome of call c is that of _handle_m_room_member for the previous
\* membership pm
AsDiffedFrom(c, pm) ==
    LET nm == NewOf(c)
    IN  IF pm = JOIN /\ nm = JOIN THEN c.raised = "NotImplementedError"
        ELSE IF pm = nm \/ (pm = "none" /\ nm = LEAVE) THEN c.res = NoSem /\ c.raised = None
        ELSE IF pm = INVITE /\ nm = JOIN THEN Gave(c, "MemberJoined") /\ c.res.flag = TRUE
        ELSE IF pm = INVITE /\ nm = LEAVE
        THEN Gave(c, IF BySelf(c) THEN "MemberInviteRejected" ELSE "MemberInviteRevoked")
        ELSE IF pm = JOIN /\ nm = LEAVE
        THEN Gave(c, IF BySelf(c) THEN "MemberLeft" ELSE "MemberKicked")
        ELSE IF pm \in {"none", LEAVE} /\ nm = INVITE THEN Gave(c, "MemberInvited")
        ELSE IF pm \in {"none", LEAVE} /\ nm = JOIN
        THEN Gave(c, "MemberJoined") /\ c.res.flag = FALSE
        ELSE IF pm = BAN /\ nm = LEAVE THEN Gave(c, "MemberUnbanned")
        ELSE IF nm = BAN THEN Gave(c, "MemberBanned") /\ c.res.flag = (pm = JOIN)
        ELSE c.res = NoSem /\ c.raised = None

\* the room of the last pass was known when the pass began
KnownBefore(emitted) == \A i \in 1..Len(emitted) : emitted[i].tag # "RoomJoinedByMe"

\* events k and k + 1 of evs are the invitation of a user who had no
\* membership and the join of that user
InviteThenJoin(evs, k) ==
    /\ evs[k].type = M_MEMBER /\ evs[k].membership = INVITE
    /\ evs[k + 1].type = M_MEMBER /\ evs[k + 1].membership = JOIN
    /\ evs[k + 1].state_key = evs[k].state_key
    /\ NearestEarlier(evs[k]) = "none"

\* emitted holds MemberInvited for raw event a, followed at once by
\* MemberJoined(was_invited=True) for raw event b
InvitedThenJoined(emitted, a, b) ==
    \E i \in 1..(Len(emitted) - 1) :
        /\ emitted[i].src = a.event_id /\ emitted[i].tag = "MemberInvited"
        /\ emitted[i + 1].src = b.event_id /\ emitted[i + 1].tag = "MemberJoined"
        /\ emitted[i + 1].flag = TRUE

\* C38: in a known room every member event is diffed against the member
\* event before it in the replay sequence: the previous membership the
\* resolver uses is the new membership of the nearest earlier member event
\* for the state key (none if that was a leave), within the pass or, when
\* the pass has none, from before the pass; an invitation followed by the
\* join in one batch yields MemberInvited, then MemberJoined(wasInvited).
C38_DiffedAgainstEachOther ==
    /\ (Called /\ last_call.e.type = M_MEMBER) =>
          /\ PrevOf(last_call) = NearestEarlier(last_call.e)
          /\ AsDiffedFrom(last_call, NearestEarlier(last_call.e))
    /\ (~last_pass.initial /\ KnownBefore(last_pass.emitted)) =>
          \A i \in 1..Len(last_pass.rooms) :
              LET evs == last_pass.rooms[i].events
              IN  \A k \in 1..(Len(evs) - 1) :
                      InviteThenJoin(evs, k)
                          => InvitedThenJoined(last_pass.emitted, evs[k], evs[k + 1])

\* a pass on a known room has replayed the invitation of a user without
\* membership and then the join, and the join was diffed against the
\* invitation
C38_Witness ==
    /\ ~last_pass.initial /\ KnownBefore(last_pass.emitted)
    /\ \E i \in 1..Len(last_pass.rooms) :
         LET evs == last_pass.rooms[i].events
         IN  \E k \in 1..(Len(evs) - 1) :
                 /\ InviteThenJoin(evs, k)
                 /\ last_call.e = evs[k + 1]
    /\ PrevOf(last_call) = INVITE
    /\ last_call.res.tag = "MemberJoined" /\ last_call.res.flag = TRUE


----------------------------------------------------------------------------
(* The member a MemberJoined event names.                                  *)

\* the member whose membership the event of call c changes
Affected(c) == IdentifierParse(c.e.state_key)

\* C39: a MemberJoined event names the member whose membership changed,
\* the identifier in the state key of the member event, in the
\* none/leave->join row and in the invite->join row, whoever sent the event.
C39_JoinedNamesStateKey ==
    (Called /\ Gave(last_call, "MemberJoined")) => last_call.res.who = Affected(last_call)

\* an invited member's join sent by somebody else has given a MemberJoined
\* event that names the sender
C39_Witness ==
    /\ Called
    /\ PrevOf(last_call) = INVITE /\ NewOf(last_call) = JOIN
    /\ ~BySelf(last_call)
    /\ Gave(last_call, "MemberJoined")
    /\ last_call.res.who = last_call.e.sender
    /\ last_call.res.who # Affected(last_call)


----------------------------------------------------------------------------
(* Start-up: RoboClient.run up to the start of the two loops.              *)

MaxStartupEvents == 2

\* the batch of the first http_client.sync() of run(): two rooms, truncated
\* timelines included
InitialSyncStart ==
    /\ ~synced
    /\ SyncStart(SyncRooms, BOOLEAN, {CreateShape}, Shapes, MaxStartupEvents)

StartupNext == InitialSyncStart \/ ClientNext

\* _process_joined_room has a room of the batch left to work on: the
\* condition under which ProcessRoom can take a step
RoomLeft == pc = "room" /\ ri <= Len(batch.joined)

\* run() awaits state.sync(last_sync, initial_batch=True) in its only task:
\* once the batch is there, the steps of the pass are taken one after the
\* other.  The second fairness condition is WF_vars(ProcessRoom) with
\* ENABLED <<ProcessRoom>>_vars written out as RoomLeft.
SpecStartup ==
    /\ ClientInit
    /\ [][StartupNext]_vars
    /\ WF_vars(PassEnd)
    /\ ([]<>(~RoomLeft) \/ []<><<ProcessRoom>>_vars)

\* the initial pass is at work on its batch
InitialPass == ~synced /\ batch # NoBatch

\* run() has opened the nursery: _sync_loop is at its long-poll and
\* _run_loop is at receive
LoopsStarted == synced /\ pc = "poll" /\ loop = "receive"

\* C40: the initial pass, which runs before the dispatch loop, sends
\* nothing to the event channel, fetches no history and ends with no
\* exception, whatever its batch; every initial pass ends, and then the
\* sync loop and the dispatch loop are started.
C40_StartupCompletes ==
    /\ [](~synced => /\ sent = <<>>
                     /\ received = <<>>
                     /\ pc \in {"poll", "room"}
                     /\ bf = NoBackfill)
    /\ (InitialPass ~> LoopsStarted)

\* the initial pass has ended on a batch of two rooms with events of its
\* own, one of them with a truncated timeline; nothing was sent and both
\* loops are at their first wait
C40_Witness ==
    /\ LoopsStarted
    /\ last_pass.initial
    /\ Len(last_pass.rooms) = 2
    /\ Len(last_pass.emitted) = 2
    /\ \E i \in 1..Len(last_pass.rooms) : last_pass.rooms[i].events # <<>>
    /\ sent = <<>>
    /\ received = <<>>

====
